---- MODULE Spec2Model ----
(***************************************************************************)
(* Model of gensx-python's CheckpointManager (gensx/core/checkpoint.py):   *)
(* the execution-tree store, the per-node secret registry and scrubber,    *)
(* and the debounced checkpoint writer with its asyncio tasks.             *)
(***************************************************************************)
EXTENDS Integers, Sequences, FiniteSets, TLC

(***************************************************************************)
(* Bounds of the model.                                                    *)
(***************************************************************************)
\* node ids the uuid generator and the callers draw from
MaxIds == 2
\* calls on the manager (add_node, complete_node, add_metadata, update_node,
\* write, wait_for_pending_updates, cleanup)
MaxOps == 3
\* asyncio task slots alive at once
MaxTasks == 2
\* node ids and calls in the runs of the node store alone
MaxTreeIds == 3
MaxTreeOps == 3
\* calls and declared paths in the runs of the secret registry and scrubber
MaxScrubOps == 3
MaxPaths == 2
\* node ids and calls in the runs of metadata calls
MaxMetaIds == 2
MaxMetaOps == 4
\* calls in the runs that lead to the adoption of the root
MaxAdoptOps == 5
\* calls in the runs of cleanup beside components still at work
MaxShutOps == 4
\* node ids, calls and call chains in the runs of wrapped components
MaxCompIds == 2
MaxCompOps == 3
MaxChains == 2

(***************************************************************************)
(* Program constants.                                                      *)
(***************************************************************************)
MIN_SECRET_LENGTH == 8

Ids == 1 .. MaxIds
\* a parent id the caller may name: the id of some node, or one that no node
\* ever gets
ParentIds == 1 .. MaxIds + 1
\* Python's None, for ids, tasks and trace ids
None == 0
TaskIds == 1 .. MaxTasks
\* the trace ids the collector hands out
TraceIds == {1, 2}

(***************************************************************************)
(* Captured values: the JSON-like data the tracker stores.  A string is a  *)
(* sequence of characters; Opaque is a foreign object (neither str, number,*)
(* bool, None, list nor dict), which json.dumps refuses.                   *)
(***************************************************************************)
Null == [t |-> "null"]
Str(s) == [t |-> "str", v |-> s]
Lst(q) == [t |-> "list", v |-> q]
Map(f) == [t |-> "dict", v |-> f]
Bool(b) == [t |-> "bool", v |-> b]
\* a foreign object and its public attributes (its __dict__, when it has one)
Obj(has_dict, attrs) == [t |-> "object", has_dict |-> has_dict, attrs |-> attrs]
\* an object without __dict__, such as a datetime
Opaque == Obj(FALSE, <<>>)
EmptyMap == Map(<<>>)
\* a dot-separated path string, held as the sequence of its keys
Path(keys) == [t |-> "str", v |-> keys]
\* types.ComponentOpts(secret_props=..., secret_outputs=...)
ComponentOpts(secret_props, secret_outputs) ==
    Obj(TRUE, [secret_props |-> Lst(secret_props), secret_outputs |-> Bool(secret_outputs)])
\* Python truthiness of a captured value
Truthy(value) ==
    CASE value.t = "null" -> FALSE
      [] value.t = "bool" -> value.v
      [] value.t = "str" -> value.v # <<>>
      [] value.t = "list" -> DOMAIN value.v # {}
      [] value.t = "dict" -> DOMAIN value.v # {}
      [] OTHER -> TRUE

\* the redaction token "[secret]"
SECRET_TOKEN == <<"[", "s", "e", "c", "r", "e", "t", "]">>
\* an API key of 8 characters, "sk-abcde"
KEY == <<"s", "k", "-", "a", "b", "c", "d", "e">>
\* "k=sk-abcde": a text that carries the key
KEY_TEXT == <<"k", "=">> \o KEY
\* "ok": shorter than MIN_SECRET_LENGTH
SHORT == <<"o", "k">>
\* "__GENSX_STREAMING_PLACEHOLDER__"
STREAMING_PLACEHOLDER ==
    Str(<<"_", "_", "G", "E", "N", "S", "X", "_", "S", "T", "R", "E", "A", "M", "I", "N",
        "G", "_", "P", "L", "A", "C", "E", "H", "O", "L", "D", "E", "R", "_", "_">>)
\* str(value) of a foreign object
OBJ_TEXT == <<"o", "b", "j">>

\* _clone_value: primitives as they are, lists and dicts copied recursively,
\* any other object by its public fields or its string rendering
RECURSIVE clone_value(_)
clone_value(value) ==
    CASE value.t = "list" -> Lst([i \in DOMAIN value.v |-> clone_value(value.v[i])])
      [] value.t = "dict" -> Map([k \in DOMAIN value.v |-> clone_value(value.v[k])])
      [] value.t = "object" ->
            IF value.has_dict
            THEN Map([k \in DOMAIN value.attrs |-> clone_value(value.attrs[k])])
            ELSE Str(OBJ_TEXT)
      [] OTHER -> value

\* hasattr(value, name) for the option names the manager looks up
has_attr(value, name) == value.t = "object" /\ name \in DOMAIN value.attrs

\* mutant: _collect_secret_values without the check of the length
RECURSIVE collect_secret_values_any_length(_)
collect_secret_values_any_length(data) ==
    CASE data.t = "str" -> {data.v}
      [] data.t = "list" ->
            UNION {collect_secret_values_any_length(data.v[i]) : i \in DOMAIN data.v}
      [] data.t = "dict" ->
            UNION {collect_secret_values_any_length(data.v[k]) : k \in DOMAIN data.v}
      [] OTHER -> {}

\* _collect_secret_values: every string of at least MIN_SECRET_LENGTH
\* characters found under data, through lists and dicts
RECURSIVE collect_secret_values(_)
collect_secret_values(data) ==
    CASE data.t = "str" -> IF Len(data.v) >= MIN_SECRET_LENGTH THEN {data.v} ELSE {}
      [] data.t = "list" -> UNION {collect_secret_values(data.v[i]) : i \in DOMAIN data.v}
      [] data.t = "dict" -> UNION {collect_secret_values(data.v[k]) : k \in DOMAIN data.v}
      [] OTHER -> {}

\* _get_value_at_path: descend by the keys of the path; None when a key is missing
RECURSIVE get_value_at_path(_, _)
get_value_at_path(obj, keys) ==
    IF keys = <<>> THEN obj
    ELSE IF obj.t = "dict" /\ Head(keys) \in DOMAIN obj.v
         THEN get_value_at_path(obj.v[Head(keys)], Tail(keys))
         ELSE Null

\* does pat occur in s at position i
OccursAt(s, pat, i) ==
    /\ i + Len(pat) - 1 <= Len(s)
    /\ \A j \in 1 .. Len(pat) : s[i + j - 1] = pat[j]

\* re.sub(re.escape(pat), tok, s): every non-overlapping occurrence, leftmost first
RECURSIVE re_sub(_, _, _)
re_sub(pat, tok, s) ==
    IF s = <<>> THEN <<>>
    ELSE IF OccursAt(s, pat, 1)
         THEN tok \o re_sub(pat, tok, SubSeq(s, Len(pat) + 1, Len(s)))
         ELSE <<Head(s)>> \o re_sub(pat, tok, Tail(s))

\* mutant: the secrets are not sorted and stay in the order of the set
LengthOrders_unsorted(secrets) ==
    {o \in [1 .. Cardinality(secrets) -> secrets] :
        \A i, j \in DOMAIN o : i # j => o[i] # o[j]}

\* the orders secrets.sort(key=len, reverse=True) can leave a set of secrets in
LengthOrders(secrets) ==
    {o \in [1 .. Cardinality(secrets) -> secrets] :
        /\ \A i, j \in DOMAIN o : i # j => o[i] # o[j]
        /\ \A i, j \in DOMAIN o : i < j => Len(o[i]) >= Len(o[j])}

\* the replacement loop of _scrub_string over the sorted secrets
RECURSIVE scrub_in_order(_, _)
scrub_in_order(order, value) ==
    IF order = <<>> THEN value
    ELSE scrub_in_order(Tail(order), re_sub(Head(order), SECRET_TOKEN, value))

\* the secrets _scrub_string keeps, in the orders the sort can leave them in:
\* secrets of the same length stay in the order the set is iterated in
ScrubOrders(effective_secrets) ==
    LengthOrders({s \in effective_secrets : Len(s) >= MIN_SECRET_LENGTH})

\* _scrub_string under the effective secrets
scrub_string(value, effective_secrets) ==
    scrub_in_order(CHOOSE o \in ScrubOrders(effective_secrets) : TRUE, value)

\* str(True), str(False)
bool_text(b) == IF b THEN <<"T", "r", "u", "e">> ELSE <<"F", "a", "l", "s", "e">>

\* _scrub_data with the effective secrets iterated in the given order: strings
\* and numbers (a bool is an int) scrubbed as text, lists and dicts rebuilt,
\* the rest as it is
RECURSIVE scrub_data_ordered(_, _)
scrub_data_ordered(data, order) ==
    CASE data.t = "str" -> Str(scrub_in_order(order, data.v))
      [] data.t = "list" ->
            Lst([i \in DOMAIN data.v |-> scrub_data_ordered(data.v[i], order)])
      [] data.t = "dict" ->
            Map([k \in DOMAIN data.v |-> scrub_data_ordered(data.v[k], order)])
      [] data.t = "bool" -> Str(scrub_in_order(order, bool_text(data.v)))
      [] OTHER -> data

\* _scrub_data under the effective secrets, where their lengths leave the
\* sort one order only (a single secret, in the runs of the writer)
scrub_data(data, effective_secrets) ==
    scrub_data_ordered(data, CHOOSE o \in ScrubOrders(effective_secrets) : TRUE)

\* json.dumps accepts the value: no foreign object anywhere in it
RECURSIVE Serializable(_)
Serializable(value) ==
    CASE value.t = "list" -> \A i \in DOMAIN value.v : Serializable(value.v[i])
      [] value.t = "dict" -> \A k \in DOMAIN value.v : Serializable(value.v[k])
      [] value.t = "object" -> FALSE
      [] OTHER -> TRUE

(***************************************************************************)
(* The manager: operations as functions of its record of fields.           *)
(***************************************************************************)
Range(q) == {q[i] : i \in DOMAIN q}

\* ExecutionNodeDict.__init__; end_time holds whether an end time is set
ExecutionNodeDict(start_time, props, parent_id, component_opts) ==
    [start_time |-> start_time,
     parent_id |-> parent_id, children |-> <<>>, end_time |-> FALSE, output |-> Null,
     metadata |-> EmptyMap, props |-> props, component_opts |-> component_opts]

\* an asyncio task of write_and_handle_pending: free slot, created and not yet
\* run ("queued"), suspended in the HTTP request ("inflight"), or cancelled
\* before it ever ran ("cancelled"); url_trace is the trace id of its request
NoTask == [st |-> "free", url_trace |-> None]

\* CheckpointManager.__init__, after the configuration checks
NewManager(enabled) ==
    [checkpoints_enabled |-> enabled,
     nodes |-> <<>>, orphaned_nodes |-> <<>>, secret_values |-> <<>>,
     current_node_chain |-> <<>>, root |-> None,
     active_checkpoint |-> None, pending_update |-> FALSE, version |-> 1,
     trace_id |-> None,
     tasks |-> [s \in TaskIds |-> NoTask]]

\* task.done() is false: the task was created and has not finished
Live(m, s) == s # None /\ m.tasks[s].st \in {"queued", "inflight"}
LiveTasks(m) == {s \in TaskIds : Live(m, s)}

\* mutant: _attach_to_parent that records the parent id and appends nothing
attach_to_parent_no_append(m, node, parent) ==
    [m EXCEPT !.nodes[node].parent_id = parent]

\* _attach_to_parent
attach_to_parent(m, node, parent) ==
    [m EXCEPT !.nodes =
        [i \in DOMAIN m.nodes |->
            IF i = node /\ i = parent
            THEN [m.nodes[i] EXCEPT !.parent_id = parent,
                                    !.children = IF node \in Range(@) THEN @
                                                 ELSE Append(@, node)]
            ELSE IF i = node THEN [m.nodes[i] EXCEPT !.parent_id = parent]
            ELSE IF i = parent
            THEN [m.nodes[i] EXCEPT !.children = IF node \in Range(@) THEN @
                                                 ELSE Append(@, node)]
            ELSE m.nodes[i]]]

\* _handle_orphaned_node; the diagnostic timer it schedules only prints
handle_orphaned_node(m, node, expected_parent_id) ==
    [m EXCEPT !.orphaned_nodes =
        [k \in DOMAIN m.orphaned_nodes \cup {expected_parent_id} |->
            IF k = expected_parent_id
            THEN (IF k \in DOMAIN m.orphaned_nodes THEN m.orphaned_nodes[k] ELSE {})
                 \cup {node}
            ELSE m.orphaned_nodes[k]]]

\* verify_node inside _is_tree_valid
RECURSIVE verify_node(_, _)
verify_node(m, node) ==
    \A i \in DOMAIN m.nodes[node].children :
        LET child == m.nodes[node].children[i]
        IN m.nodes[child].parent_id = node /\ verify_node(m, child)

\* mutant: _is_tree_valid without the check of the orphan buckets
is_tree_valid_ignores_orphans(m) ==
    /\ m.root # None
    /\ verify_node(m, m.root)

\* _is_tree_valid
is_tree_valid(m) ==
    /\ m.root # None
    /\ DOMAIN m.orphaned_nodes = {}
    /\ verify_node(m, m.root)

\* _with_node: the function runs with node_id pushed on the chain
with_node(m, node_id) == [m EXCEPT !.current_node_chain = Append(@, node_id)]

\* mutant: _get_effective_secrets that returns the secrets of every node
get_effective_secrets_global(m) ==
    UNION {m.secret_values[k] : k \in DOMAIN m.secret_values}

\* _get_effective_secrets
get_effective_secrets(m) ==
    UNION {IF m.current_node_chain[i] \in DOMAIN m.secret_values
           THEN m.secret_values[m.current_node_chain[i]] ELSE {} :
           i \in DOMAIN m.current_node_chain}

\* node_secrets = self._secret_values.setdefault(node_id, set()), then the
\* collected values added to it
add_secrets(m, node_id, found) ==
    [m EXCEPT !.secret_values =
        [k \in DOMAIN m.secret_values \cup {node_id} |->
            (IF k \in DOMAIN m.secret_values THEN m.secret_values[k] ELSE {})
            \cup (IF k = node_id THEN found ELSE {})]]

\* _register_secrets
register_secrets(m, props, paths, node_id) ==
    add_secrets(m, node_id,
        UNION {collect_secret_values(get_value_at_path(props, paths[i].v)) :
               i \in DOMAIN paths})

\* _scrub_secrets
scrub_secrets(m, data, node_id) ==
    IF node_id # None
    THEN scrub_data(data, get_effective_secrets(with_node(m, node_id)))
    ELSE scrub_data(data, get_effective_secrets(m))

\* _mask_execution_tree over ExecutionNodeDict.to_dict
RECURSIVE mask_execution_tree(_, _)
mask_execution_tree(m, node) ==
    LET n == m.nodes[node]
    IN [id |-> node,
        endTime |-> n.end_time,
        props |-> scrub_secrets(m, n.props, node),
        output |-> IF n.output # Null THEN scrub_secrets(m, n.output, node) ELSE n.output,
        children |-> [i \in DOMAIN n.children |-> mask_execution_tree(m, n.children[i])],
        metadata |-> IF n.metadata # EmptyMap THEN scrub_secrets(m, n.metadata, node)
                     ELSE n.metadata,
        parentId |-> n.parent_id]

\* json.dumps accepts the masked tree
RECURSIVE TreeSerializable(_)
TreeSerializable(tree) ==
    /\ Serializable(tree.props) /\ Serializable(tree.output) /\ Serializable(tree.metadata)
    /\ \A i \in DOMAIN tree.children : TreeSerializable(tree.children[i])

\* sum of a sequence of numbers
RECURSIVE Sum(_)
Sum(q) == IF q = <<>> THEN 0 ELSE Head(q) + Sum(Tail(q))

\* mutant: _count_steps that counts the nodes of the store
RECURSIVE count_steps_of_store(_, _)
count_steps_of_store(m, node) == Cardinality(DOMAIN m.nodes)

\* _count_steps
RECURSIVE count_steps(_, _)
count_steps(m, node) ==
    1 + Sum([i \in DOMAIN m.nodes[node].children |->
                count_steps(m, m.nodes[node].children[i])])

\* asyncio.create_task(write_and_handle_pending()): the task takes a free slot
\* and active_checkpoint refers to it; a finished task nothing refers to is gone
create_task(m) ==
    LET s == CHOOSE s \in TaskIds : m.tasks[s].st = "free"
    IN [m EXCEPT !.tasks = [t \in TaskIds |->
                               IF t = s THEN [st |-> "queued", url_trace |-> None]
                               ELSE IF m.tasks[t].st = "cancelled" THEN NoTask
                               ELSE m.tasks[t]],
                 !.active_checkpoint = s]

\* mutant: _update_checkpoint without the check for a flush in flight
update_checkpoint_unguarded(m) ==
    IF ~m.checkpoints_enabled THEN m
    ELSE IF ~is_tree_valid(m) THEN [m EXCEPT !.pending_update = TRUE]
    ELSE IF \E s \in TaskIds : m.tasks[s].st = "free" THEN create_task(m)
    ELSE m

\* mutant: _update_checkpoint that returns without setting the flag when a
\* flush is in flight
update_checkpoint_forgetful(m) ==
    IF ~m.checkpoints_enabled THEN m
    ELSE IF ~is_tree_valid(m) THEN [m EXCEPT !.pending_update = TRUE]
    ELSE IF Live(m, m.active_checkpoint) THEN m
    ELSE create_task(m)

\* mutant: _update_checkpoint without the check that checkpoints are enabled
update_checkpoint_always(m) ==
    IF ~is_tree_valid(m) THEN [m EXCEPT !.pending_update = TRUE]
    ELSE IF Live(m, m.active_checkpoint) THEN [m EXCEPT !.pending_update = TRUE]
    ELSE create_task(m)

\* _update_checkpoint
update_checkpoint(m) ==
    IF ~m.checkpoints_enabled THEN m
    ELSE IF ~is_tree_valid(m) THEN [m EXCEPT !.pending_update = TRUE]
    ELSE IF Live(m, m.active_checkpoint) THEN [m EXCEPT !.pending_update = TRUE]
    ELSE create_task(m)

\* mutant: only the first waiting orphan is attached
attach_all_first_only(m, order, node) ==
    IF order = <<>> THEN m ELSE attach_to_parent(m, Head(order), node)

\* attach every waiting orphan, in the order the bucket (a set) is iterated
RECURSIVE attach_all(_, _, _)
attach_all(m, order, node) ==
    IF order = <<>> THEN m
    ELSE attach_all(attach_to_parent(m, Head(order), node), Tail(order), node)

\* time.time() as add_node reads it: a clock that has ticked once for every
\* node created so far
time(m) == Cardinality(DOMAIN m.nodes) + 1

\* the ways a set can be listed
Listings(S) ==
    {o \in [1 .. Cardinality(S) -> S] : \A i, j \in DOMAIN o : i # j => o[i] # o[j]}

\* mutant: add_node in which a later parentless node takes the root over
add_node_replaces_root(m, node_id, partial_node, parent_id, order) ==
    LET props == clone_value(partial_node.props)
        opts == clone_value(partial_node.component_opts)
        node == ExecutionNodeDict(time(m), props, parent_id, opts)
        m2 == [m EXCEPT !.nodes =
                  [i \in DOMAIN m.nodes \cup {node_id} |->
                      IF i = node_id THEN node ELSE m.nodes[i]]]
        m3 == IF parent_id # None
              THEN IF parent_id \in DOMAIN m2.nodes
                   THEN attach_to_parent(m2, node_id, parent_id)
                   ELSE handle_orphaned_node(m2, node_id, parent_id)
              ELSE IF m2.root # None /\ m2.nodes[m2.root].parent_id = node_id
                   THEN [attach_to_parent(m2, m2.root, node_id) EXCEPT !.root = node_id]
                   ELSE [m2 EXCEPT !.root = node_id]
        m4 == IF node_id \in DOMAIN m3.orphaned_nodes /\ m3.orphaned_nodes[node_id] # {}
              THEN [attach_all(m3, order, node_id) EXCEPT !.orphaned_nodes =
                       [k \in DOMAIN m3.orphaned_nodes \ {node_id} |-> m3.orphaned_nodes[k]]]
              ELSE m3
    IN IF parent_id = None /\ m4.root = node_id THEN update_checkpoint(m4) ELSE m4

\* mutant: add_node that requests a flush for every node it creates
add_node_always_requests(m, node_id, partial_node, parent_id, order) ==
    LET props == clone_value(partial_node.props)
        opts == clone_value(partial_node.component_opts)
        node == ExecutionNodeDict(time(m), props, parent_id, opts)
        m1 == IF Truthy(opts) /\ has_attr(opts, "secret_props")
                 /\ Truthy(opts.attrs.secret_props)
              THEN register_secrets(m, props, opts.attrs.secret_props.v, node_id)
              ELSE m
        m2 == [m1 EXCEPT !.nodes =
                  [i \in DOMAIN m1.nodes \cup {node_id} |->
                      IF i = node_id THEN node ELSE m1.nodes[i]]]
        m3 == IF parent_id # None
              THEN IF parent_id \in DOMAIN m2.nodes
                   THEN attach_to_parent(m2, node_id, parent_id)
                   ELSE handle_orphaned_node(m2, node_id, parent_id)
              ELSE IF m2.root = None THEN [m2 EXCEPT !.root = node_id]
              ELSE IF m2.nodes[m2.root].parent_id = node_id
                   THEN [attach_to_parent(m2, m2.root, node_id) EXCEPT !.root = node_id]
                   ELSE m2
        m4 == IF node_id \in DOMAIN m3.orphaned_nodes /\ m3.orphaned_nodes[node_id] # {}
              THEN [attach_all(m3, order, node_id) EXCEPT !.orphaned_nodes =
                       [k \in DOMAIN m3.orphaned_nodes \ {node_id} |-> m3.orphaned_nodes[k]]]
              ELSE m3
    IN update_checkpoint(m4)

\* add_node, with node_id the uuid it generates and order the iteration order
\* of the bucket of orphans waiting for node_id
add_node(m, node_id, partial_node, parent_id, order) ==
    LET props == clone_value(partial_node.props)
        opts == clone_value(partial_node.component_opts)
        node == ExecutionNodeDict(time(m), props, parent_id, opts)
        m1 == IF Truthy(opts) /\ has_attr(opts, "secret_props")
                 /\ Truthy(opts.attrs.secret_props)
              THEN register_secrets(m, props, opts.attrs.secret_props.v, node_id)
              ELSE m
        m2 == [m1 EXCEPT !.nodes =
                  [i \in DOMAIN m1.nodes \cup {node_id} |->
                      IF i = node_id THEN node ELSE m1.nodes[i]]]
        m3 == IF parent_id # None
              THEN IF parent_id \in DOMAIN m2.nodes
                   THEN attach_to_parent(m2, node_id, parent_id)
                   ELSE handle_orphaned_node(m2, node_id, parent_id)
              ELSE IF m2.root = None THEN [m2 EXCEPT !.root = node_id]
              ELSE IF m2.nodes[m2.root].parent_id = node_id
                   THEN [attach_to_parent(m2, m2.root, node_id) EXCEPT !.root = node_id]
                   ELSE m2
        m4 == IF node_id \in DOMAIN m3.orphaned_nodes /\ m3.orphaned_nodes[node_id] # {}
              THEN [attach_all(m3, order, node_id) EXCEPT !.orphaned_nodes =
                       [k \in DOMAIN m3.orphaned_nodes \ {node_id} |-> m3.orphaned_nodes[k]]]
              ELSE m3
    IN IF parent_id = None /\ m4.root = node_id THEN update_checkpoint(m4) ELSE m4

\* the secret-output registration shared by complete_node and update_node
register_output_secrets(m, id, output) ==
    LET opts == m.nodes[id].component_opts
    IN IF Truthy(opts) /\ has_attr(opts, "secret_outputs")
          /\ Truthy(opts.attrs.secret_outputs) /\ output # STREAMING_PLACEHOLDER
       THEN add_secrets(m, id, collect_secret_values(output))
       ELSE m

\* mutant: complete_node that gives the end time to the children of the node too
complete_node_with_children(m, id, output) ==
    IF id \in DOMAIN m.nodes
    THEN update_checkpoint(
            register_output_secrets(
                [m EXCEPT !.nodes =
                    [n \in DOMAIN m.nodes |->
                        IF n = id
                        THEN [m.nodes[n] EXCEPT !.end_time = TRUE,
                                                !.output = clone_value(output)]
                        ELSE IF n \in Range(m.nodes[id].children)
                        THEN [m.nodes[n] EXCEPT !.end_time = TRUE]
                        ELSE m.nodes[n]]],
                id, output))
    ELSE m

\* mutant: complete_node that requests a flush whether or not it knows the id
complete_node_always_requests(m, id, output) ==
    update_checkpoint(
        IF id \in DOMAIN m.nodes
        THEN register_output_secrets(
                [m EXCEPT !.nodes[id].end_time = TRUE,
                          !.nodes[id].output = clone_value(output)],
                id, output)
        ELSE m)

\* complete_node
complete_node(m, id, output) ==
    IF id \in DOMAIN m.nodes
    THEN update_checkpoint(
            register_output_secrets(
                [m EXCEPT !.nodes[id].end_time = TRUE,
                          !.nodes[id].output = clone_value(output)],
                id, output))
    ELSE m

\* dict.update on two captured dicts
dict_update(old, new) ==
    Map([k \in DOMAIN old.v \cup DOMAIN new.v |->
            IF k \in DOMAIN new.v THEN new.v[k] ELSE old.v[k]])

\* mutant: add_metadata that replaces the map of the node by the caller's
add_metadata_replaces(m, id, metadata) ==
    IF id \in DOMAIN m.nodes
    THEN update_checkpoint([m EXCEPT !.nodes[id].metadata = metadata])
    ELSE m

\* add_metadata: the caller's values are merged in as they are, not cloned
add_metadata(m, id, metadata) ==
    IF id \in DOMAIN m.nodes
    THEN update_checkpoint([m EXCEPT !.nodes[id].metadata = dict_update(@, metadata)])
    ELSE m

\* the attributes of a node that update_node is given in this model
NodeAttrs == {"output", "metadata", "parent_id"}

\* setattr(node, key, self._clone_value(value)) for the keys the node has
set_attrs(node, updates) ==
    [node EXCEPT
        !.output = IF "output" \in DOMAIN updates THEN clone_value(updates.output) ELSE @,
        !.metadata = IF "metadata" \in DOMAIN updates THEN clone_value(updates.metadata)
                     ELSE @,
        !.parent_id = IF "parent_id" \in DOMAIN updates THEN updates.parent_id ELSE @]

\* update_node, updates mapping attribute names to their new values
update_node(m, id, updates) ==
    IF id \in DOMAIN m.nodes
    THEN LET m1 == IF "output" \in DOMAIN updates
                   THEN register_output_secrets(m, id, updates.output)
                   ELSE m
         IN update_checkpoint([m1 EXCEPT !.nodes[id] = set_attrs(@, updates)])
    ELSE m

\* write
write(m) == update_checkpoint(m)

(***************************************************************************)
(* The flush task write_and_handle_pending, step by step.                  *)
(***************************************************************************)
\* mutant: the finally block without the retry
write_and_handle_pending_finally_no_retry(m, s) ==
    [m EXCEPT !.tasks[s] = NoTask, !.active_checkpoint = None, !.pending_update = FALSE]

\* mutant: the finally block that retries without clearing the flag
write_and_handle_pending_finally_keeps_flag(m, s) ==
    LET m1 == [m EXCEPT !.tasks[s] = NoTask, !.active_checkpoint = None]
    IN IF m1.pending_update THEN update_checkpoint(m1) ELSE m1

\* mutant: the finally block that leaves a pending retry for the next request
write_and_handle_pending_finally_deferred(m, s) ==
    [m EXCEPT !.tasks[s] = NoTask, !.active_checkpoint = None]

\* the finally block of write_and_handle_pending, run by task s as it ends
write_and_handle_pending_finally(m, s) ==
    LET m1 == [m EXCEPT !.tasks[s] = NoTask, !.active_checkpoint = None]
    IN IF m1.pending_update
       THEN update_checkpoint([m1 EXCEPT !.pending_update = FALSE])
       ELSE m1

\* "Always increment version", the last statement of _write_checkpoint
increment_version(m) == [m EXCEPT !.version = @ + 1]

\* the payload _write_checkpoint builds and the request it chooses
Payload(m) ==
    [method |-> IF m.trace_id = None THEN "POST" ELSE "PUT",
     url_trace |-> m.trace_id,
     executionId |-> m.root,
     version |-> m.version,
     steps |-> count_steps(m, m.root),
     rawExecution |-> mask_execution_tree(m, m.root)]

\* json.dumps of the masked tree raises
EncodingFails(m) == ~TreeSerializable(mask_execution_tree(m, m.root))

\* _write_checkpoint from the task's first step up to its await: with no root
\* it returns at once; an encoding error is caught and the version incremented;
\* without aiohttp the write is simulated and a trace id made up (uuid); with
\* aiohttp the task suspends in the request
write_checkpoint(m, s, aiohttp, uuid) ==
    IF m.root = None THEN write_and_handle_pending_finally(m, s)
    ELSE IF EncodingFails(m)
         THEN write_and_handle_pending_finally(increment_version(m), s)
    ELSE IF aiohttp
         THEN [m EXCEPT !.tasks[s] = [st |-> "inflight", url_trace |-> m.trace_id]]
    ELSE write_and_handle_pending_finally(
            increment_version(
                [m EXCEPT !.trace_id = IF @ # None THEN @ ELSE uuid]), s)

\* what the collector can answer: a success carrying a trace id, a success
\* whose body carries none (or cannot be parsed), a non-success status, or a
\* failed request
Responses ==
    [kind : {"ok"}, trace : TraceIds] \cup
    [kind : {"ok_no_id", "server_error", "request_failed"}, trace : {None}]
FailedResponses == {r \in Responses : r.kind \in {"server_error", "request_failed"}}

\* what the collector can answer to the request of task s: the code reads the
\* trace id from the body whatever the request addressed
Answers(m, s) == Responses

\* mutant: the trace id of a success is stored whether or not it is present
write_checkpoint_aiohttp_overwrite(m, response) ==
    IF response.kind \in {"ok", "ok_no_id"}
    THEN [m EXCEPT !.trace_id = response.trace]
    ELSE m

\* _write_checkpoint_aiohttp after the response: the trace id is captured from
\* a success that carries one
write_checkpoint_aiohttp(m, response) ==
    IF response.kind = "ok" /\ response.trace # None
    THEN [m EXCEPT !.trace_id = response.trace]
    ELSE m

\* the task resumes with the response: capture, increment, finally
task_response(m, s, response) ==
    write_and_handle_pending_finally(
        increment_version(write_checkpoint_aiohttp(m, response)), s)

\* mutant: task.cancel() that also rolls the nodes back to what they were when
\* created: no end time, no output, no metadata
task_cancel_rolls_back(m, s) ==
    LET m1 == [m EXCEPT !.nodes =
                  [n \in DOMAIN m.nodes |->
                      [m.nodes[n] EXCEPT !.end_time = FALSE, !.output = Null,
                                         !.metadata = EmptyMap]]]
    IN IF m.tasks[s].st = "inflight" THEN write_and_handle_pending_finally(m1, s)
       ELSE [m1 EXCEPT !.tasks[s].st = "cancelled"]

\* task.cancel(): a task suspended in its request gets CancelledError there,
\* which no "except Exception" catches, so the version is not incremented and
\* the finally block runs; a task that never ran is cancelled without running
task_cancel(m, s) ==
    IF m.tasks[s].st = "inflight" THEN write_and_handle_pending_finally(m, s)
    ELSE [m EXCEPT !.tasks[s].st = "cancelled"]

\* mutant: wait_for_pending_updates that looks at the task only
wait_for_pending_updates_task_only(m) ==
    IF Live(m, m.active_checkpoint) THEN [pc |-> "wait", task |-> m.active_checkpoint]
    ELSE [pc |-> "returned", task |-> None]

\* wait_for_pending_updates from its call, or from its resumption after the
\* awaited task: it awaits a live flush; otherwise, with the retry flag set it
\* calls itself without ever suspending, until Python's recursion limit
wait_for_pending_updates(m) ==
    IF Live(m, m.active_checkpoint) THEN [pc |-> "wait", task |-> m.active_checkpoint]
    ELSE IF m.pending_update THEN [pc |-> "recursion_error", task |-> None]
    ELSE [pc |-> "returned", task |-> None]


(***************************************************************************)
(* State.                                                                  *)
(***************************************************************************)
VARIABLES
    mgr,         \* the manager with persistence enabled
    twin,        \* a manager with persistence disabled, given the same calls
    HAS_AIOHTTP, \* whether the aiohttp import succeeded
    drain,       \* the caller of wait_for_pending_updates: pc and awaited task
    cleaner,     \* the caller of cleanup: pc and awaited task
    wire,        \* the last write issued, and how many were
    hist,        \* history: the last step and what has happened since a flush
    call,        \* a call of a function that leaves no state behind (the checks
                 \* of the constructor, the scrubber): arguments and result
    chains       \* the logical call chains running wrapped components

vars == <<mgr, twin, HAS_AIOHTTP, drain, cleaner, wire, hist, call, chains>>

\* no call is under study, no component runs
NoCall == [args |-> Null, result |-> Null]
NoChains == <<>>

Init ==
    /\ mgr = NewManager(TRUE)
    /\ twin = NewManager(FALSE)
    /\ HAS_AIOHTTP \in BOOLEAN
    /\ drain = [pc |-> "idle", task |-> None]
    /\ cleaner = [pc |-> "idle", task |-> None]
    /\ wire = [n |-> 0, payload |-> Null]
    /\ hist = [ops |-> 0, mut_inflight |-> FALSE, req_inflight |-> FALSE,
               add_since |-> FALSE, lost |-> FALSE]
    /\ call = NoCall
    /\ chains = NoChains

(***************************************************************************)
(* Inputs of the calls.                                                    *)
(***************************************************************************)
\* the partial nodes component_wrapper passes to add_node
Partials ==
    {[props |-> Map([apiKey |-> Str(KEY)]),
      component_opts |-> ComponentOpts(<<Path(<<"apiKey">>)>>, TRUE)]}
\* outputs given to complete_node: a result, or None after an error
Outputs == {Str(KEY_TEXT)}
\* metadata given to add_metadata: an error text, or a value json cannot encode
Metadatas == {Map([error |-> Str(SHORT)]), Map([at |-> Opaque])}
\* updates given to update_node
Updates == {[output |-> Str(SHORT)], [parent_id |-> None]}

(***************************************************************************)
(* Steps.                                                                  *)
(***************************************************************************)
\* an awaiter of task s is woken when s finishes
Wake(w, s) == IF w.pc = "wait" /\ w.task = s THEN [pc |-> "ready", task |-> None] ELSE w

\* an awaiter of task s gets CancelledError when s is cancelled before it ran
WakeCancelled(w, s) ==
    IF w.pc = "wait" /\ w.task = s THEN [pc |-> "cancelled_error", task |-> None] ELSE w

\* a synchronous call on the manager: the same call reaches the twin; effective
\* says the call changed the tree, requested that it reached _update_checkpoint
Call(m, t, effective, requested) ==
    /\ hist.ops < MaxOps
    /\ \E s \in TaskIds : mgr.tasks[s].st = "free"
    /\ mgr' = m
    /\ twin' = t
    /\ hist' = [hist EXCEPT !.ops = @ + 1,
                            !.mut_inflight = @ \/ (effective /\ LiveTasks(mgr) # {}),
                            !.req_inflight = @ \/ (requested /\ LiveTasks(mgr) # {}),
                            !.add_since = @ \/ (effective /\ ~requested)]
    /\ UNCHANGED <<HAS_AIOHTTP, call, chains, drain, cleaner, wire>>

AddNode ==
    \E node_id \in Ids \ DOMAIN mgr.nodes, parent_id \in ParentIds \cup {None},
       partial_node \in Partials :
        /\ parent_id # node_id
        /\ \E order \in Listings(IF node_id \in DOMAIN mgr.orphaned_nodes
                                 THEN mgr.orphaned_nodes[node_id] ELSE {}) :
            LET m == add_node(mgr, node_id, partial_node, parent_id, order)
            IN Call(m, add_node(twin, node_id, partial_node, parent_id, order),
                    TRUE, parent_id = None /\ m.root = node_id)

CompleteNode ==
    \E id \in Ids, output \in Outputs :
        Call(complete_node(mgr, id, output),
             complete_node(twin, id, output),
             id \in DOMAIN mgr.nodes, id \in DOMAIN mgr.nodes)

AddMetadata ==
    \E id \in Ids, metadata \in Metadatas :
        Call(add_metadata(mgr, id, metadata),
             add_metadata(twin, id, metadata),
             id \in DOMAIN mgr.nodes, id \in DOMAIN mgr.nodes)

UpdateNode ==
    \E id \in Ids, updates \in Updates :
        Call(update_node(mgr, id, updates), update_node(twin, id, updates),
             id \in DOMAIN mgr.nodes, id \in DOMAIN mgr.nodes)

Write == Call(write(mgr), write(twin), FALSE, TRUE)

\* the event loop runs the first step of a created task
TaskStart ==
    \E s \in TaskIds, uuid \in TraceIds :
        /\ mgr.tasks[s].st = "queued"
        /\ LET issued == mgr.root # None /\ ~EncodingFails(mgr)
               ended == ~(issued /\ HAS_AIOHTTP)
           IN /\ mgr' = write_checkpoint(mgr, s, HAS_AIOHTTP, uuid)
              /\ wire' = IF issued THEN [n |-> wire.n + 1, payload |-> Payload(mgr)]
                         ELSE wire
              /\ drain' = IF ended THEN Wake(drain, s) ELSE drain
              /\ cleaner' = IF ended THEN Wake(cleaner, s) ELSE cleaner
              /\ hist' = [hist EXCEPT !.mut_inflight = FALSE,
                                      !.req_inflight = FALSE,
                                      !.add_since = FALSE]
        /\ UNCHANGED <<twin, HAS_AIOHTTP, call, chains>>

\* the response of the collector reaches the suspended task
TaskResponse ==
    \E s \in TaskIds :
        /\ mgr.tasks[s].st = "inflight"
        /\ \E response \in Answers(mgr, s) : mgr' = task_response(mgr, s, response)
        /\ drain' = Wake(drain, s)
        /\ cleaner' = Wake(cleaner, s)
        /\ UNCHANGED <<twin, HAS_AIOHTTP, call, chains, wire, hist>>

\* a call of wait_for_pending_updates
DrainCall ==
    /\ drain.pc \notin {"wait", "ready"}
    /\ hist.ops < MaxOps
    /\ drain' = wait_for_pending_updates(mgr)
    /\ hist' = [hist EXCEPT !.ops = @ + 1]
    /\ UNCHANGED <<mgr, twin, HAS_AIOHTTP, call, chains, cleaner, wire>>

\* wait_for_pending_updates resumes after the task it awaited
DrainResume ==
    /\ drain.pc = "ready"
    /\ drain' = wait_for_pending_updates(mgr)
    /\ UNCHANGED <<mgr, twin, HAS_AIOHTTP, call, chains, cleaner, wire, hist>>

\* cleanup up to its first await: it waits for a live flush, with a timeout;
\* with none live its second check finds none either and it returns
cleanup(m) ==
    IF Live(m, m.active_checkpoint) THEN [pc |-> "wait", task |-> m.active_checkpoint]
    ELSE [pc |-> "returned", task |-> None]

CleanupCall ==
    /\ cleaner.pc \notin {"wait", "ready"}
    /\ hist.ops < MaxOps
    /\ cleaner' = cleanup(mgr)
    /\ hist' = [hist EXCEPT !.ops = @ + 1]
    /\ UNCHANGED <<mgr, twin, HAS_AIOHTTP, call, chains, drain, wire>>

\* asyncio.wait_for gives up after 5 s on a request still outstanding and
\* cancels the task
CleanupTimeout ==
    /\ cleaner.pc = "wait"
    /\ mgr.tasks[cleaner.task].st = "inflight"
    /\ mgr' = task_cancel(mgr, cleaner.task)
    /\ cleaner' = [pc |-> "ready", task |-> None]
    /\ drain' = Wake(drain, cleaner.task)
    /\ hist' = [hist EXCEPT !.lost = TRUE]
    /\ UNCHANGED <<twin, HAS_AIOHTTP, call, chains, wire>>

\* cleanup after its wait: "Cancel any remaining tasks", then return
CleanupResume ==
    /\ cleaner.pc = "ready"
    /\ cleaner' = [pc |-> "returned", task |-> None]
    /\ IF Live(mgr, mgr.active_checkpoint)
       THEN LET s == mgr.active_checkpoint
                ran == mgr.tasks[s].st = "inflight"
            IN /\ mgr' = task_cancel(mgr, s)
               /\ drain' = IF ran THEN Wake(drain, s) ELSE WakeCancelled(drain, s)
               /\ hist' = [hist EXCEPT !.lost = TRUE]
       ELSE UNCHANGED <<mgr, drain, hist>>
    /\ UNCHANGED <<twin, HAS_AIOHTTP, call, chains, wire>>

Next ==
    \/ AddNode
    \/ CompleteNode
    \/ AddMetadata
    \/ UpdateNode
    \/ Write
    \/ TaskStart
    \/ TaskResponse
    \/ DrainCall
    \/ DrainResume
    \/ CleanupCall
    \/ CleanupTimeout
    \/ CleanupResume

Spec == Init /\ [][Next]_vars

(***************************************************************************)
(* Flushes of a tree with registered secrets. add_node and complete_node   *)
(* are written to call _register_secrets, but _clone_value has turned the  *)
(* component options into a dict by then and hasattr(..., 'secret_props')  *)
(* is false; here _register_secrets is called for a stored node with the   *)
(* arguments add_node would pass it.                                       *)
(***************************************************************************)
RegisterSecrets ==
    \E node_id \in DOMAIN mgr.nodes :
        LET paths == <<Path(<<"apiKey">>)>>
        IN Call(register_secrets(mgr, mgr.nodes[node_id].props, paths, node_id),
                register_secrets(twin, twin.nodes[node_id].props, paths, node_id),
                FALSE, FALSE)

SecretNext ==
    \/ AddNode
    \/ RegisterSecrets
    \/ CompleteNode
    \/ TaskStart
    \/ TaskResponse

SecretSpec == Init /\ [][SecretNext]_vars

(***************************************************************************)
(* The node store alone: synchronous calls on a manager constructed with   *)
(* disabled=True, as the tests of the tree construct it, with more ids and *)
(* with patches of parent_id to any id.                                    *)
(***************************************************************************)
TreeIds == 1 .. MaxTreeIds
\* a parent id the caller may name: the id of some node, or one that no node
\* ever gets
TreeParentIds == 1 .. MaxTreeIds + 1

\* the partial node of add_node({"component_name": ...})
TreePartials == {[props |-> EmptyMap, component_opts |-> Null]}
\* patches of the recorded parent id
TreeUpdates == {[parent_id |-> p] : p \in TreeParentIds \cup {None}}

TreeInit ==
    /\ mgr = NewManager(FALSE)
    /\ twin = NewManager(FALSE)
    /\ HAS_AIOHTTP = FALSE
    /\ drain = [pc |-> "idle", task |-> None]
    /\ cleaner = [pc |-> "idle", task |-> None]
    /\ wire = [n |-> 0, payload |-> Null]
    /\ hist = [ops |-> 0, mut_inflight |-> FALSE, req_inflight |-> FALSE,
               add_since |-> FALSE, lost |-> FALSE]
    /\ call = NoCall
    /\ chains = NoChains

\* a synchronous call on the manager
TreeCall(m) ==
    /\ hist.ops < MaxTreeOps
    /\ mgr' = m
    /\ hist' = [hist EXCEPT !.ops = @ + 1]
    /\ UNCHANGED <<twin, HAS_AIOHTTP, call, chains, drain, cleaner, wire>>

TreeAddNode ==
    \E node_id \in TreeIds \ DOMAIN mgr.nodes, parent_id \in TreeParentIds \cup {None},
       partial_node \in TreePartials :
        /\ parent_id # node_id
        /\ \E order \in Listings(IF node_id \in DOMAIN mgr.orphaned_nodes
                                 THEN mgr.orphaned_nodes[node_id] ELSE {}) :
            TreeCall(add_node(mgr, node_id, partial_node, parent_id, order))

TreeCompleteNode ==
    \E id \in TreeIds : TreeCall(complete_node(mgr, id, Str(SHORT)))

TreeAddMetadata ==
    \E id \in TreeIds : TreeCall(add_metadata(mgr, id, Map([error |-> Str(SHORT)])))

TreeUpdateNode ==
    \E id \in TreeIds, updates \in TreeUpdates : TreeCall(update_node(mgr, id, updates))

TreeNext ==
    \/ TreeAddNode
    \/ TreeCompleteNode
    \/ TreeAddMetadata
    \/ TreeUpdateNode

TreeSpec == TreeInit /\ [][TreeNext]_vars

(***************************************************************************)
(* The secret registry and the scrubber alone: secrets are harvested from  *)
(* the props of a component and from an output into the set of one node,   *)
(* and a captured value is scrubbed under that node, once and then again.  *)
(***************************************************************************)
\* "abcd1234wxyz", a secret of 12 characters
LONG == <<"a", "b", "c", "d", "1", "2", "3", "4", "w", "x", "y", "z">>
\* "1234wxyz", of 8 characters, the end of LONG
INNER == SubSeq(LONG, 5, 12)
\* "abcd1234", of 8 characters, the start of LONG; it overlaps INNER in LONG
HEAD == SubSeq(LONG, 1, 8)
\* "234wxyz", of 7 characters
SEVEN == SubSeq(LONG, 6, 12)

\* the node the secrets are registered on and the data scrubbed under
ScrubNode == 1

\* the props of the component
ScrubProps ==
    {Map([apiKey |-> Str(LONG),
          creds |-> Map([part |-> Str(INNER), pins |-> Lst(<<Str(HEAD), Str(SEVEN)>>)]),
          note |-> Str(SHORT)])}
\* the dot-separated paths a component can declare
ScrubPaths ==
    {Path(<<"apiKey">>), Path(<<"creds">>), Path(<<"creds", "part">>),
     Path(<<"creds", "pins">>), Path(<<"note">>), Path(<<"creds", "none">>)}
\* the lists of paths given to one call of _register_secrets
ScrubPathLists == UNION {[1 .. n -> ScrubPaths] : n \in 1 .. MaxPaths}
\* outputs secrets are harvested from
ScrubOutputs == {Lst(<<Str(KEY), Str(SHORT)>>), Str(SEVEN)}
\* the values that are scrubbed
ScrubTexts ==
    {Str(<<"k", "=">> \o LONG),
     Str(INNER \o <<",">> \o LONG),
     Str(SHORT \o <<" ">> \o SEVEN),
     Map([echo |-> Lst(<<Str(LONG \o SHORT), Str(SEVEN)>>), flag |-> Bool(TRUE)])}

\* the secrets in effect when data is scrubbed under ScrubNode
ScrubEffective(m) == get_effective_secrets(with_node(m, ScrubNode))

ScrubInit ==
    /\ mgr = NewManager(FALSE)
    /\ twin = NewManager(FALSE)
    /\ HAS_AIOHTTP = FALSE
    /\ drain = [pc |-> "idle", task |-> None]
    /\ cleaner = [pc |-> "idle", task |-> None]
    /\ wire = [n |-> 0, payload |-> Null]
    /\ hist = [ops |-> 0, mut_inflight |-> FALSE, req_inflight |-> FALSE,
               add_since |-> FALSE, lost |-> FALSE]
    /\ \E props \in ScrubProps, data \in ScrubTexts :
            call = [args |-> [props |-> props, data |-> data], order |-> <<>>,
                    result |-> <<>>]
    /\ chains = NoChains

\* a call on the registry or the scrubber
ScrubStep(m, c) ==
    /\ hist.ops < MaxScrubOps
    /\ mgr' = m
    /\ call' = c
    /\ hist' = [hist EXCEPT !.ops = @ + 1]
    /\ UNCHANGED <<twin, HAS_AIOHTTP, drain, cleaner, wire, chains>>

\* _register_secrets(props, paths, node_id); no value has been scrubbed yet
ScrubRegister ==
    \E paths \in ScrubPathLists :
        /\ call.result = <<>>
        /\ ScrubStep(register_secrets(mgr, clone_value(call.args.props), paths, ScrubNode),
                     call)

\* register_output_secrets inside complete_node, for a node whose options
\* have secret_outputs
ScrubRegisterOutput ==
    \E output \in ScrubOutputs :
        /\ call.result = <<>>
        /\ ScrubStep(add_secrets(mgr, ScrubNode, collect_secret_values(output)), call)

\* _scrub_secrets(data, node_id), with the order the set of effective secrets
\* is iterated in
ScrubData ==
    \E order \in ScrubOrders(ScrubEffective(mgr)) :
        /\ call.result = <<>>
        /\ ScrubStep(mgr, [call EXCEPT !.order = order,
                                       !.result = <<scrub_data_ordered(call.args.data, order)>>])

\* _scrub_secrets of the value the first call returned: the set is the same,
\* and so is the order it is iterated in
ScrubAgain ==
    /\ Len(call.result) = 1
    /\ ScrubStep(mgr, [call EXCEPT !.result =
                          Append(@, scrub_data_ordered(call.result[1], call.order))])

ScrubNext ==
    \/ ScrubRegister
    \/ ScrubRegisterOutput
    \/ ScrubData
    \/ ScrubAgain

ScrubSpec == ScrubInit /\ [][ScrubNext]_vars

(***************************************************************************)
(* Construction of the manager: the constructor's arguments, the           *)
(* environment variables and the config file it reads, and what it gives.  *)
(***************************************************************************)
\* a or b in Python
py_or(a, b) == IF Truthy(a) THEN a ELSE b

\* raise GenSXError(message)
GenSXError(message) == [t |-> "GenSXError", message |-> message]
\* the call ended in an exception
Raised(result) == "message" \in DOMAIN result

\* the runtime labels the constructor accepts
CLOUD == Str(<<"c", "l", "o", "u", "d">>)
SDK == Str(<<"s", "d", "k">>)
\* the values of GENSX_CHECKPOINTS that disable checkpoints
CHECKPOINTS_OFF ==
    {Str(<<"f", "a", "l", "s", "e">>), Str(<<"0">>), Str(<<"n", "o">>), Str(<<"o", "f", "f">>)}

\* mutant: the organization is required whether or not checkpoints are enabled
init_requires_org(args) ==
    LET org == py_or(py_or(args.org, args.GENSX_ORG), args.config_org)
        api_key == py_or(py_or(args.api_key, args.GENSX_API_KEY), args.config_token)
        runtime == py_or(args.runtime, args.GENSX_RUNTIME)
        enabled == api_key # Null
                   /\ ~(Truthy(args.disabled) \/ args.GENSX_CHECKPOINTS \in CHECKPOINTS_OFF)
    IN IF ~Truthy(org) THEN GenSXError("Organization not set")
       ELSE IF Truthy(runtime) /\ runtime \notin {CLOUD, SDK}
       THEN GenSXError("Invalid runtime")
       ELSE NewManager(enabled)

\* CheckpointManager.__init__: the configuration is resolved (constructor
\* argument, then environment variable, then config file) and checked; the
\* result is the exception raised or the manager
init(args) ==
    LET api_key == py_or(py_or(args.api_key, args.GENSX_API_KEY), args.config_token)
        org == py_or(py_or(args.org, args.GENSX_ORG), args.config_org)
        runtime == py_or(args.runtime, args.GENSX_RUNTIME)
        checkpoints_enabled ==
            IF Truthy(args.disabled) \/ args.GENSX_CHECKPOINTS \in CHECKPOINTS_OFF
            THEN FALSE
            ELSE api_key # Null
    IN IF checkpoints_enabled /\ ~Truthy(org) THEN GenSXError("Organization not set")
       ELSE IF Truthy(runtime) /\ runtime \notin {CLOUD, SDK}
       THEN GenSXError("Invalid runtime")
       ELSE NewManager(checkpoints_enabled)

\* a key, an organization, and a runtime label the constructor does not know
API_KEY == Str(<<"k">>)
ORG == Str(<<"o">>)
EDGE == Str(<<"e", "d", "g", "e">>)

\* what a constructor is called with and finds around it
CtorArgs ==
    [api_key : {Null, API_KEY}, GENSX_API_KEY : {Null, API_KEY}, config_token : {Null, API_KEY},
     org : {Null, Str(<<>>), ORG}, GENSX_ORG : {Null, ORG}, config_org : {Null},
     disabled : {Null, Bool(TRUE), Bool(FALSE)},
     GENSX_CHECKPOINTS : CHECKPOINTS_OFF \cup {Null, Str(<<"t", "r", "u", "e">>)},
     runtime : {Null, Str(<<>>), CLOUD, SDK, EDGE},
     GENSX_RUNTIME : {Null, SDK, EDGE}]

CtorInit ==
    /\ mgr = Null
    /\ twin = Null
    /\ HAS_AIOHTTP = FALSE
    /\ drain = [pc |-> "idle", task |-> None]
    /\ cleaner = [pc |-> "idle", task |-> None]
    /\ wire = [n |-> 0, payload |-> Null]
    /\ hist = [ops |-> 0, mut_inflight |-> FALSE, req_inflight |-> FALSE,
               add_since |-> FALSE, lost |-> FALSE]
    /\ \E args \in CtorArgs : call = [args |-> args, result |-> Null]
    /\ chains = NoChains

\* CheckpointManager(**args): the caller gets the manager or the exception
Construct ==
    /\ call.result = Null
    /\ call' = [call EXCEPT !.result = init(call.args)]
    /\ mgr' = IF Raised(init(call.args)) THEN mgr ELSE init(call.args)
    /\ UNCHANGED <<twin, HAS_AIOHTTP, drain, cleaner, wire, hist, chains>>

CtorNext == Construct

CtorSpec == CtorInit /\ [][CtorNext]_vars

(***************************************************************************)
(* Metadata calls: nodes are created and completed, and metadata is added  *)
(* to them call after call.                                                *)
(***************************************************************************)
MetaIds == 1 .. MaxMetaIds
\* two values a key can be given
META_1 == Str(<<"1">>)
META_2 == Str(<<"2">>)
\* the maps given to add_metadata: the metadata of the component options, an
\* error entry, both, or nothing
MetaMaps ==
    {EmptyMap, Map([tag |-> META_1]), Map([tag |-> META_2]), Map([error |-> META_1]),
     Map([error |-> META_2]), Map([tag |-> META_2, error |-> META_1])}

\* a synchronous call on the manager
MetaCall(m) ==
    /\ hist.ops < MaxMetaOps
    /\ mgr' = m
    /\ hist' = [hist EXCEPT !.ops = @ + 1]
    /\ UNCHANGED <<twin, HAS_AIOHTTP, call, chains, drain, cleaner, wire>>

MetaAddNode ==
    \E node_id \in MetaIds \ DOMAIN mgr.nodes, parent_id \in DOMAIN mgr.nodes \cup {None},
       partial_node \in TreePartials :
        MetaCall(add_node(mgr, node_id, partial_node, parent_id, <<>>))

MetaAddMetadata ==
    \E id \in MetaIds, metadata \in MetaMaps : MetaCall(add_metadata(mgr, id, metadata))

MetaCompleteNode ==
    \E id \in MetaIds : MetaCall(complete_node(mgr, id, Str(SHORT)))

MetaNext ==
    \/ MetaAddNode
    \/ MetaAddMetadata
    \/ MetaCompleteNode

MetaSpec == TreeInit /\ [][MetaNext]_vars

(***************************************************************************)
(* A burst: mutations issued one after the other until the first flush     *)
(* attempt has ended, and the flushes they lead to.                        *)
(***************************************************************************)
\* no flush attempt has ended yet: each one that ends increments the version
NoFlushCompleted == mgr.version = 1

\* a mutation of the burst
BurstMutation ==
    /\ NoFlushCompleted
    /\ (AddNode \/ CompleteNode \/ AddMetadata \/ UpdateNode)

BurstNext ==
    \/ BurstMutation
    \/ TaskStart
    \/ TaskResponse

BurstSpec == Init /\ [][BurstNext]_vars

(***************************************************************************)
(* Properties of the checkpoint writer.                                    *)
(***************************************************************************)
Idle(m) == LiveTasks(m) = {} /\ ~m.pending_update

\* a step in which a write is issued (or, without aiohttp, simulated)
WriteIssued == wire'.n = wire.n + 1

\* C1: at most one flush task is live at any time, and a flush request made
\* while a flush is live starts no task: it leaves the tasks as they are and
\* sets pending_update.
C1_AtMostOneFlush ==
    [][/\ Cardinality(LiveTasks(mgr')) <= 1
       /\ (LiveTasks(mgr) # {} /\ hist'.req_inflight /\ ~hist.req_inflight)
            => /\ mgr'.tasks = mgr.tasks
               /\ mgr'.active_checkpoint = mgr.active_checkpoint
               /\ mgr'.pending_update]_vars

\* a flush is live, a request arrived meanwhile and only set the retry flag
C1_Witness ==
    /\ Cardinality(LiveTasks(mgr)) = 1
    /\ hist.req_inflight
    /\ mgr.pending_update
    /\ is_tree_valid(mgr)

\* C2 (as amended): after a call that requested a flush while a flush was
\* live (complete_node, add_metadata, update_node on a known node, write, or
\* add_node of the root), and until a later flush has started, a flush is live
\* or pending_update is set, unless cleanup has cancelled a flush.
C2_RequestKeptUntilFlushed ==
    (hist.req_inflight /\ ~hist.lost) => (LiveTasks(mgr) # {} \/ mgr.pending_update)

\* the flush that was live has ended and the retry flush has been created for
\* the request that arrived meanwhile
C2_Witness ==
    /\ hist.req_inflight
    /\ ~hist.lost
    /\ ~mgr.pending_update
    /\ \E s \in TaskIds : mgr.tasks[s].st = "queued"
    /\ mgr.version > 1

\* C2 (as stated): every mutation applied while a flush is live is followed
\* by another flush; so until that flush has started a flush is live or the
\* retry flag is set (cancelled flushes left aside).
C2_EveryMutationFlushed ==
    (hist.mut_inflight /\ ~hist.lost) => (LiveTasks(mgr) # {} \/ mgr.pending_update)

C4_SnapshotOfValidTree == [][WriteIssued => is_tree_valid(mgr)]_vars

\* a flush attempt that reached its request ends in this step
AttemptEnds ==
    \E s \in TaskIds : mgr.tasks[s].st = "inflight" /\ mgr'.tasks[s].st # "inflight"

\* C5: the version starts at 1, never decreases, and every flush attempt that
\* ends, whatever its outcome, increments it by exactly one.
C5_VersionCountsAttempts ==
    [][/\ mgr.version >= 1
       /\ mgr'.version >= mgr.version
       /\ AttemptEnds => mgr'.version = mgr.version + 1]_vars

\* a step in which a flush fails: the request fails or is answered with a
\* non-success status, or the snapshot cannot be encoded
FlushFails ==
    \E s \in TaskIds :
        \/ /\ mgr.tasks[s].st = "inflight"
           /\ \E r \in FailedResponses : mgr' = task_response(mgr, s, r)
        \/ /\ mgr.tasks[s].st = "queued"
           /\ mgr.root # None
           /\ EncodingFails(mgr)
           /\ mgr' = write_checkpoint(mgr, s, HAS_AIOHTTP, None)

\* a failed flush leaves the tree, the secrets and the trace id as they were
FailureFrame ==
    /\ mgr'.nodes = mgr.nodes
    /\ mgr'.root = mgr.root
    /\ mgr'.orphaned_nodes = mgr.orphaned_nodes
    /\ mgr'.secret_values = mgr.secret_values
    /\ mgr'.trace_id = mgr.trace_id
    /\ twin' = twin

\* C6 (as amended): a failed flush leaves nodes, root, orphan set, secrets and
\* trace id unchanged and returns the engine to idle when no retry was
\* pending; when one was pending it starts the retry flush if the tree is
\* structurally valid, and otherwise leaves no flush live and the flag set
\* (the request stays deferred).
C6_FailedFlushContained ==
    [][FlushFails =>
        /\ FailureFrame
        /\ IF ~mgr.pending_update THEN Idle(mgr')
           ELSE IF is_tree_valid(mgr)
                THEN Cardinality(LiveTasks(mgr')) = 1 /\ ~mgr'.pending_update
                ELSE LiveTasks(mgr') = {} /\ mgr'.pending_update]_vars

\* a flush failed to encode (the version moved on with no write issued) and
\* the retry that was pending stays deferred on a tree with an orphan
C6_Witness ==
    /\ wire.n = 0
    /\ mgr.version = 2
    /\ LiveTasks(mgr) = {}
    /\ mgr.pending_update
    /\ ~is_tree_valid(mgr)

\* C6 (as stated): a failed flush leaves nodes, root, orphan set, secrets and
\* trace id unchanged and returns the engine to idle, or to a retry flush if
\* one was pending.
C6_FailedFlushIdleOrRetry ==
    [][FlushFails =>
        /\ FailureFrame
        /\ IF mgr.pending_update THEN Cardinality(LiveTasks(mgr')) = 1
           ELSE Idle(mgr')]_vars

\* a step in which wait_for_pending_updates returns to its caller
DrainReturns == (DrainCall \/ DrainResume) /\ drain'.pc = "returned"

\* C7: when wait_for_pending_updates returns, no flush is live and
\* pending_update is not set.
C7_DrainReturnsIdle == [][DrainReturns => Idle(mgr')]_vars

\* the drain has returned after at least one flush attempt ended
C7_Witness == drain.pc = "returned" /\ mgr.version > 1 /\ wire.n > 0

\* C8: a call of wait_for_pending_updates returns; it never ends in the
\* unbounded recursion that Python stops with RecursionError.
C8_DrainTerminates == drain.pc # "recursion_error"

\* C9: with persistence disabled no flush is started and the persistence
\* state stays as constructed, while nodes, root, orphan set and secrets are
\* those of the manager with persistence enabled that was given the same calls.
C9_DisabledIsInert ==
    /\ twin.tasks = [s \in TaskIds |-> NoTask]
    /\ twin.active_checkpoint = None
    /\ ~twin.pending_update
    /\ twin.version = 1
    /\ twin.trace_id = None
    /\ twin.nodes = mgr.nodes
    /\ twin.root = mgr.root
    /\ twin.orphaned_nodes = mgr.orphaned_nodes
    /\ twin.secret_values = mgr.secret_values

\* both managers hold a completed root with a child, and the enabled one has
\* written
C9_Witness ==
    /\ twin.root # None
    /\ twin.nodes[twin.root].children # <<>>
    /\ twin.nodes[twin.root].end_time
    /\ wire.n > 0

\* C10 (as amended): a write is a POST exactly when no trace id is known as
\* it is issued and otherwise a PUT addressed to the trace id known then,
\* which is the one carried by the latest successful response that carried
\* one; once a trace id is known, one stays known.
C10_CreateThenUpdateLatest ==
    [][/\ WriteIssued =>
            /\ wire'.payload.method = "POST" <=> mgr.trace_id = None
            /\ wire'.payload.method = "PUT" <=> mgr.trace_id # None
            /\ wire'.payload.url_trace = mgr.trace_id
       /\ mgr.trace_id # None => mgr'.trace_id # None
       /\ \A s \in TaskIds, id \in TraceIds :
            (/\ mgr.tasks[s].st = "inflight"
             /\ mgr' = task_response(mgr, s, [kind |-> "ok", trace |-> id]))
            => mgr'.trace_id = id
       /\ mgr'.trace_id # mgr.trace_id =>
            \/ \E s \in TaskIds :
                    /\ mgr.tasks[s].st = "inflight"
                    /\ mgr' = task_response(mgr, s, [kind |-> "ok", trace |-> mgr'.trace_id])
            \/ ~HAS_AIOHTTP /\ mgr.trace_id = None /\ WriteIssued]_vars

\* C10 (as stated): a write is a POST exactly when no trace id is known as it
\* is issued and otherwise a PUT addressed to the known trace id; once a trace
\* id is known it stays the same, so every later write is addressed to it.
C10_CreateThenUpdate ==
    [][/\ WriteIssued =>
            /\ wire'.payload.method = "POST" <=> mgr.trace_id = None
            /\ wire'.payload.method = "PUT" <=> mgr.trace_id # None
            /\ wire'.payload.url_trace = mgr.trace_id
       /\ mgr.trace_id # None => mgr'.trace_id = mgr.trace_id]_vars

\* an updating write was issued to the trace a creating write obtained
C10_Witness ==
    /\ wire.n >= 2
    /\ wire.payload.method = "PUT"
    /\ wire.payload.url_trace = mgr.trace_id

(***************************************************************************)
(* Properties of the node store.                                           *)
(***************************************************************************)
\* node n is created in this step
Created(n) == n \in DOMAIN mgr'.nodes \ DOMAIN mgr.nodes

\* the buckets of m that hold node n
BucketsOf(m, n) == {p \in DOMAIN m.orphaned_nodes : n \in m.orphaned_nodes[p]}

\* the places of the children lists of m that hold node n
PlacesOf(m, n) ==
    {<<p, i>> \in (DOMAIN m.nodes) \X (1 .. Cardinality(DOMAIN m.nodes)) :
        i \in DOMAIN m.nodes[p].children /\ m.nodes[p].children[i] = n}

\* C11: a node created with a parent id for which no node exists is in the
\* store under its own id at once and in the bucket keyed by that parent id;
\* it stays in that bucket as long as the bucket exists, and while any bucket
\* exists the tree is not structurally valid.
C11_OrphanStored ==
    [][/\ \A n \in TreeIds, p \in TreeParentIds, partial_node \in TreePartials :
            (/\ n \notin DOMAIN mgr.nodes /\ p \notin DOMAIN mgr.nodes /\ p # n
             /\ \E order \in Listings(IF n \in DOMAIN mgr.orphaned_nodes
                                       THEN mgr.orphaned_nodes[n] ELSE {}) :
                    mgr' = add_node(mgr, n, partial_node, p, order))
            => /\ n \in DOMAIN mgr'.nodes
               /\ mgr'.nodes[n].parent_id = p
               /\ p \in DOMAIN mgr'.orphaned_nodes
               /\ n \in mgr'.orphaned_nodes[p]
       /\ \A p \in DOMAIN mgr.orphaned_nodes :
            p \in DOMAIN mgr'.orphaned_nodes
            => mgr.orphaned_nodes[p] \subseteq mgr'.orphaned_nodes[p]
       /\ DOMAIN mgr'.orphaned_nodes # {} => ~is_tree_valid(mgr')]_vars

\* a root exists and a node waits in a bucket for a parent that does not exist
C11_Witness ==
    /\ mgr.root # None
    /\ \E p \in DOMAIN mgr.orphaned_nodes :
            p \notin DOMAIN mgr.nodes /\ mgr.orphaned_nodes[p] \cap DOMAIN mgr.nodes # {}
    /\ ~is_tree_valid(mgr)

\* C12: when the node a bucket is keyed by is created, every node of the
\* bucket is a child of the new node afterwards and records its id as parent
\* id, and the bucket is gone; a bucket goes in no other step, and a node that
\* waits in a bucket is in no children list.
C12_OrphansAdopted ==
    [][/\ \A n \in DOMAIN mgr.orphaned_nodes :
            Created(n)
            => /\ n \notin DOMAIN mgr'.orphaned_nodes
               /\ \A o \in mgr.orphaned_nodes[n] :
                    /\ o \in Range(mgr'.nodes[n].children)
                    /\ mgr'.nodes[o].parent_id = n
       /\ \A n \in DOMAIN mgr.orphaned_nodes \ DOMAIN mgr'.orphaned_nodes : Created(n)
       /\ \A n \in DOMAIN mgr.orphaned_nodes :
            \A o \in mgr.orphaned_nodes[n] : PlacesOf(mgr, o) = {}]_vars

\* two nodes that waited for a parent are its children, and no bucket is left
C12_Witness ==
    /\ DOMAIN mgr.orphaned_nodes = {}
    /\ \E n \in DOMAIN mgr.nodes :
            /\ Len(mgr.nodes[n].children) = 2
            /\ \A i \in DOMAIN mgr.nodes[n].children :
                    LET o == mgr.nodes[n].children[i]
                    IN /\ mgr.nodes[o].start_time < mgr.nodes[n].start_time
                       /\ mgr.nodes[o].parent_id = n

\* C13: when the node a bucket is keyed by is created, the nodes of the
\* bucket stand in its children list in the order of their creation.
C13_AdoptedInCreationOrder ==
    [][\A n \in DOMAIN mgr.orphaned_nodes :
        Created(n)
        => \A i, j \in DOMAIN mgr'.nodes[n].children :
              LET a == mgr'.nodes[n].children[i]
                  b == mgr'.nodes[n].children[j]
              IN (i < j /\ a \in mgr.orphaned_nodes[n] /\ b \in mgr.orphaned_nodes[n])
                 => mgr.nodes[a].start_time < mgr.nodes[b].start_time]_vars

\* every parent id a node records is the id of a node
ParentsCreated(m) ==
    \A n \in DOMAIN m.nodes :
        m.nodes[n].parent_id # None => m.nodes[n].parent_id \in DOMAIN m.nodes

\* C14: whenever a root exists and every parent id recorded by a node is the
\* id of a created node, the tree is structurally valid, whatever complete,
\* metadata and patch calls were made.
C14_ValidOnceParentsCreated ==
    (mgr.root # None /\ ParentsCreated(mgr)) => is_tree_valid(mgr)

\* C15 (as amended): no node is ever in more than one place (a bucket or a
\* position of a children list); a node created with a parent id is in
\* exactly one place from its creation on; a node in one place stays in one
\* place. A node created with no parent, the root or a later one, is in none
\* unless it is the former root adopted by the node its parent id named.
C15_OnePlacePerNode ==
    [][/\ \A n \in DOMAIN mgr'.nodes :
            Cardinality(BucketsOf(mgr', n)) + Cardinality(PlacesOf(mgr', n)) <= 1
       /\ \A n \in DOMAIN mgr'.nodes :
            (Created(n) /\ mgr'.nodes[n].parent_id # None)
            => Cardinality(BucketsOf(mgr', n)) + Cardinality(PlacesOf(mgr', n)) = 1
       /\ \A n \in DOMAIN mgr.nodes :
            Cardinality(BucketsOf(mgr, n)) + Cardinality(PlacesOf(mgr, n)) = 1
            => Cardinality(BucketsOf(mgr', n)) + Cardinality(PlacesOf(mgr', n)) = 1
       /\ \A n \in DOMAIN mgr'.nodes :
            (Created(n) /\ mgr'.nodes[n].parent_id = None)
            => BucketsOf(mgr', n) = {} /\ PlacesOf(mgr', n) = {}]_vars

\* a root, a child in its children list, and a node waiting in a bucket
C15_Witness ==
    /\ mgr.root # None
    /\ \E n \in DOMAIN mgr.nodes :
            Cardinality(PlacesOf(mgr, n)) = 1 /\ BucketsOf(mgr, n) = {}
    /\ \E n \in DOMAIN mgr.nodes :
            Cardinality(BucketsOf(mgr, n)) = 1 /\ PlacesOf(mgr, n) = {}

\* C15 (as stated): every created node other than the root is in exactly one
\* bucket or in exactly one children list.
C15_ExactlyOnePlace ==
    \A n \in DOMAIN mgr.nodes \ {mgr.root} :
        Cardinality(BucketsOf(mgr, n)) + Cardinality(PlacesOf(mgr, n)) = 1

\* C16: every node in a children list records the id of the node that holds
\* the list as its parent id, and no children list holds a node twice.
C16_ChildrenRecordParent ==
    \A p \in DOMAIN mgr.nodes :
        /\ \A i \in DOMAIN mgr.nodes[p].children :
                mgr.nodes[mgr.nodes[p].children[i]].parent_id = p
        /\ \A i, j \in DOMAIN mgr.nodes[p].children :
                i # j => mgr.nodes[p].children[i] # mgr.nodes[p].children[j]

\* C17: the first node created with no parent becomes the root; a later one
\* leaves the root and the root's record as they are unless the root records
\* the new node's id as its parent id, and then the new node is the root and
\* the former root its child; no other step changes the root.
C17_FirstParentlessIsRoot ==
    [][/\ \A n \in TreeIds :
            (Created(n) /\ mgr'.nodes[n].parent_id = None)
            => IF mgr.root = None THEN mgr'.root = n
               ELSE IF mgr.nodes[mgr.root].parent_id = n
               THEN /\ mgr'.root = n
                    /\ mgr.root \in Range(mgr'.nodes[n].children)
                    /\ mgr'.nodes[mgr.root].parent_id = n
               ELSE /\ mgr'.root = mgr.root
                    /\ mgr'.nodes[mgr.root] = mgr.nodes[mgr.root]
       /\ mgr'.root # mgr.root
            => \E n \in TreeIds : Created(n) /\ mgr'.nodes[n].parent_id = None]_vars

\* a second parentless node exists beside the root, which was created first
C17_Witness ==
    /\ mgr.root # None
    /\ \E n \in DOMAIN mgr.nodes \ {mgr.root} :
            /\ mgr.nodes[n].parent_id = None
            /\ PlacesOf(mgr, n) = {}
            /\ mgr.nodes[mgr.root].start_time < mgr.nodes[n].start_time

\* C18: complete_node, add_metadata and update_node with an id that is not
\* in the store return the manager as it is: nodes, root, buckets and secrets
\* unchanged, no task created and pending_update not set.
C18_UnknownIdInert ==
    \A id \in Ids \ DOMAIN mgr.nodes :
        /\ \A output \in Outputs : complete_node(mgr, id, output) = mgr
        /\ \A metadata \in Metadatas : add_metadata(mgr, id, metadata) = mgr
        /\ \A updates \in Updates : update_node(mgr, id, updates) = mgr

\* an id is unknown while the tree is valid and no flush is live, where a
\* flush request would start a task, and calls have been made
C18_Witness ==
    /\ Ids \ DOMAIN mgr.nodes # {}
    /\ is_tree_valid(mgr)
    /\ Idle(mgr)
    /\ hist.ops = MaxOps
    /\ wire.n > 0

(***************************************************************************)
(* Properties of the redaction of snapshots.                               *)
(***************************************************************************)
\* the secrets registered on node id
SecretsOf(m, id) == IF id \in DOMAIN m.secret_values THEN m.secret_values[id] ELSE {}

\* the snapshot tree holds, for its node and every node below it, the fields
\* of the stored node scrubbed of the secrets of that node and of the nodes
\* above it (inherited)
RECURSIVE RedactedWithAncestors(_, _, _)
RedactedWithAncestors(m, tree, inherited) ==
    LET effective == inherited \cup SecretsOf(m, tree.id)
        n == m.nodes[tree.id]
    IN /\ tree.props = scrub_data(n.props, effective)
       /\ n.output # Null => tree.output = scrub_data(n.output, effective)
       /\ n.metadata # EmptyMap => tree.metadata = scrub_data(n.metadata, effective)
       /\ \A i \in DOMAIN tree.children :
            RedactedWithAncestors(m, tree.children[i], effective)

\* C19: in every snapshot a flush sends, the props, output and metadata of
\* each node are scrubbed of the secrets registered on that node and on all
\* its ancestors.
C19_AncestorSecretsRedacted ==
    [][WriteIssued => RedactedWithAncestors(mgr, wire'.payload.rawExecution, {})]_vars

\* in the snapshot tree, the fields of a node on which and above which no
\* secret is registered are those of the stored node with nothing redacted
RECURSIVE ScopedOnly(_, _, _)
ScopedOnly(m, tree, inherited) ==
    LET effective == inherited \cup SecretsOf(m, tree.id)
        n == m.nodes[tree.id]
    IN /\ effective = {} =>
            /\ tree.props = scrub_data(n.props, {})
            /\ n.output # Null => tree.output = scrub_data(n.output, {})
            /\ n.metadata # EmptyMap => tree.metadata = scrub_data(n.metadata, {})
       /\ \A i \in DOMAIN tree.children : ScopedOnly(m, tree.children[i], effective)

\* C20: in every snapshot a flush sends, a node with no secret registered on
\* it or on any of its ancestors has its fields left intact, whatever secrets
\* are registered on other nodes.
C20_SecretsScoped ==
    [][WriteIssued => ScopedOnly(mgr, wire'.payload.rawExecution, {})]_vars

\* a snapshot was sent in which the root, with no secret of its own, keeps the
\* string that is a secret of its child, where it is redacted
C20_Witness ==
    /\ wire.n > 0
    /\ wire.payload.rawExecution.props = Map([apiKey |-> Str(KEY)])
    /\ \E i \in DOMAIN wire.payload.rawExecution.children :
            wire.payload.rawExecution.children[i].props = Map([apiKey |-> Str(SECRET_TOKEN)])

(***************************************************************************)
(* Properties of secret registration and of the scrubber.                  *)
(***************************************************************************)
\* the string pat occurs in the string s
Occurs(s, pat) == \E i \in 1 .. Len(s) : OccursAt(s, pat, i)

\* the string pat occurs in some string of a captured value
RECURSIVE Mentions(_, _)
Mentions(value, pat) ==
    CASE value.t = "str" -> Occurs(value.v, pat)
      [] value.t = "list" -> \E i \in DOMAIN value.v : Mentions(value.v[i], pat)
      [] value.t = "dict" -> \E k \in DOMAIN value.v : Mentions(value.v[k], pat)
      [] OTHER -> FALSE

\* the string pat occurs in the props or the output of some node of a
\* snapshot tree
RECURSIVE TreeMentions(_, _)
TreeMentions(tree, pat) ==
    \/ Mentions(tree.props, pat)
    \/ Mentions(tree.output, pat)
    \/ \E i \in DOMAIN tree.children : TreeMentions(tree.children[i], pat)

\* C21: a node created by add_node with component options that declare the
\* secret path "apiKey" and props {"apiKey": K}, K of 8 characters, has K in
\* its secret set from its creation on, and no snapshot sent shows K in the
\* props or the output of such a node (every node of these runs is one).
C21_DeclaredSecretRedacted ==
    /\ \A n \in DOMAIN mgr.nodes :
            mgr.nodes[n].props = Map([apiKey |-> Str(KEY)]) => KEY \in SecretsOf(mgr, n)
    /\ wire.n > 0 => ~TreeMentions(wire.payload.rawExecution, KEY)

\* every string held anywhere in a captured value, through lists and dicts
RECURSIVE Leaves(_)
Leaves(value) ==
    CASE value.t = "str" -> {value.v}
      [] value.t = "list" -> UNION {Leaves(value.v[i]) : i \in DOMAIN value.v}
      [] value.t = "dict" -> UNION {Leaves(value.v[k]) : k \in DOMAIN value.v}
      [] OTHER -> {}

\* C22: registration, from declared paths or from an output, never puts a
\* string shorter than 8 characters into a secret set, and a call of
\* _register_secrets puts in every string of 8 characters or more that lies
\* under a declared path, through any nesting of lists and dicts; scrubbing
\* returns a text in which no registered secret occurs as it is, whatever
\* short strings were offered.
C22_ShortNeverSecret ==
    /\ \A n \in DOMAIN mgr.secret_values :
            \A s \in mgr.secret_values[n] : Len(s) >= MIN_SECRET_LENGTH
    /\ \A paths \in ScrubPathLists :
            LET m == register_secrets(mgr, clone_value(call.args.props), paths, ScrubNode)
            IN \A i \in DOMAIN paths :
                 \A s \in Leaves(get_value_at_path(call.args.props, paths[i].v)) :
                    Len(s) >= MIN_SECRET_LENGTH <=> s \in SecretsOf(m, ScrubNode)
    /\ (call.result # <<>> /\ call.args.data.t = "str"
        /\ \A s \in ScrubEffective(mgr) : ~Occurs(call.args.data.v, s))
        => call.result[1] = call.args.data

\* the strings under "creds" were offered, the one of 7 characters among
\* them, and a text made of short strings came back from the scrubber as it was
C22_Witness ==
    /\ SecretsOf(mgr, ScrubNode) = {INNER, HEAD}
    /\ call.args.data = Str(SHORT \o <<" ">> \o SEVEN)
    /\ call.result = <<call.args.data>>

\* s occurs in l and is not all of it
ProperSubstring(s, l) == s # l /\ Occurs(l, s)

\* the occurrences of pat in s that re.sub replaces: not overlapping, leftmost
\* first
RECURSIVE count_sub(_, _)
count_sub(pat, s) ==
    IF s = <<>> THEN 0
    ELSE IF OccursAt(s, pat, 1) THEN 1 + count_sub(pat, SubSeq(s, Len(pat) + 1, Len(s)))
    ELSE count_sub(pat, Tail(s))

\* the order without the secret l
Without(order, l) == SelectSeq(order, LAMBDA x : x # l)

C24_IdempotentOrderIndependent ==
    call.result # <<>> =>
        /\ \A order \in ScrubOrders(ScrubEffective(mgr)) :
                scrub_data_ordered(call.args.data, order) = call.result[1]
        /\ Len(call.result) = 2 => call.result[2] = call.result[1]

(***************************************************************************)
(* Properties of the construction.                                         *)
(***************************************************************************)
\* an API key is given by the argument, the environment or the config file
KeyPresent(args) == {args.api_key, args.GENSX_API_KEY, args.config_token} # {Null}

\* an organization is given by one of them, and is not empty
OrgSet(args) == {args.org, args.GENSX_ORG, args.config_org} \ {Null, Str(<<>>)} # {}

\* checkpoints are disabled by the argument or by GENSX_CHECKPOINTS
Disabled(args) == args.disabled = Bool(TRUE) \/ args.GENSX_CHECKPOINTS \in CHECKPOINTS_OFF

\* the runtime label that is set: the argument, or else GENSX_RUNTIME
RuntimeLabel(args) ==
    IF args.runtime \notin {Null, Str(<<>>)} THEN args.runtime ELSE args.GENSX_RUNTIME

\* C25: the constructor raises GenSXError exactly when persistence is enabled
\* (an API key is present and checkpoints are not disabled) and no
\* organization is set, or when the runtime label is set and is neither
\* "cloud" nor "sdk"; otherwise it gives a manager whose persistence is
\* enabled exactly when a key is present and it is not disabled, so with
\* persistence disabled a missing organization is no error.
C25_ConfigurationErrors ==
    call.result # Null =>
        LET a == call.args
            enabled == KeyPresent(a) /\ ~Disabled(a)
            bad_runtime == RuntimeLabel(a) \notin {Null, CLOUD, SDK}
        IN /\ Raised(call.result) <=> ((enabled /\ ~OrgSet(a)) \/ bad_runtime)
           /\ ~Raised(call.result) =>
                /\ call.result.checkpoints_enabled = enabled
                /\ mgr = call.result
           /\ Raised(call.result) => mgr = Null

\* a manager was constructed with a key present, checkpoints disabled through
\* the environment and no organization anywhere
C25_Witness ==
    /\ call.result # Null
    /\ ~Raised(call.result)
    /\ KeyPresent(call.args)
    /\ call.args.GENSX_CHECKPOINTS \in CHECKPOINTS_OFF
    /\ ~OrgSet(call.args)
    /\ ~call.result.checkpoints_enabled

(***************************************************************************)
(* Properties of metadata.                                                 *)
(***************************************************************************)
\* the metadata map of node n, as a function of its keys
MetadataOf(m, n) == m.nodes[n].metadata.v

\* C26: a call of add_metadata on a node leaves the node with every key it
\* had and every key of the call, the keys of the call mapped to the values
\* of the call and the others to what they had; no step removes a key of a
\* node, and the value of a key changes only in a call that supplies it.
C26_MetadataAdditive ==
    [][/\ \A id \in DOMAIN mgr.nodes, metadata \in MetaMaps :
            mgr' = add_metadata(mgr, id, metadata)
            => /\ DOMAIN MetadataOf(mgr', id)
                    = DOMAIN MetadataOf(mgr, id) \cup DOMAIN metadata.v
               /\ \A k \in DOMAIN metadata.v : MetadataOf(mgr', id)[k] = metadata.v[k]
               /\ \A k \in DOMAIN MetadataOf(mgr, id) \ DOMAIN metadata.v :
                    MetadataOf(mgr', id)[k] = MetadataOf(mgr, id)[k]
       /\ \A n \in DOMAIN mgr.nodes :
            /\ DOMAIN MetadataOf(mgr, n) \subseteq DOMAIN MetadataOf(mgr', n)
            /\ \A k \in DOMAIN MetadataOf(mgr, n) :
                    MetadataOf(mgr', n)[k] # MetadataOf(mgr, n)[k]
                    => \E metadata \in MetaMaps :
                            /\ k \in DOMAIN metadata.v
                            /\ MetadataOf(mgr', n)[k] = metadata.v[k]
                            /\ mgr' = add_metadata(mgr, n, metadata)]_vars

\* a node holds a key from one call and another key from a later call: no
\* single map of the calls holds both values
C26_Witness ==
    \E n \in DOMAIN mgr.nodes :
        mgr.nodes[n].metadata = Map([tag |-> META_1, error |-> META_2])

(***************************************************************************)
(* Properties of a burst of mutations.                                     *)
(***************************************************************************)
\* C27 (as amended): the mutations issued before any flush completes lead to
\* at most two writes, however many they are: at most one write is issued
\* before the first flush completes, and at most one more, the retry, after
\* it; so the writes are fewer than the mutations from three mutations on.
C27_AtMostTwoWrites ==
    /\ wire.n <= 2
    /\ NoFlushCompleted => wire.n <= 1
    /\ hist.ops >= 3 => wire.n < hist.ops

\* three mutations were issued before any flush completed, two writes were
\* issued for them, and the engine is idle
C27_Witness ==
    /\ hist.ops = 3
    /\ wire.n = 2
    /\ Idle(mgr)

\* C27 (as stated): when N mutations (two or more) are issued one after the
\* other before any flush completes, fewer than N writes are issued for them.
C27_FewerWritesThanMutations ==
    hist.ops >= 2 => wire.n < hist.ops

(***************************************************************************)
(* Properties of cleanup.                                                  *)
(***************************************************************************)
\* a step of cleanup: its call, the timeout of its wait, its resumption
CleanupStep == CleanupCall \/ CleanupTimeout \/ CleanupResume

\* C28: every step of cleanup leaves nodes (with their children lists,
\* outputs and metadata), root, orphan buckets and secret sets as they were;
\* the timeout of its wait cancels the outstanding write: no request is
\* outstanding afterwards and the attempt does not count as ended.
C28_CleanupKeepsTree ==
    [][/\ CleanupStep =>
            /\ mgr'.nodes = mgr.nodes
            /\ mgr'.root = mgr.root
            /\ mgr'.orphaned_nodes = mgr.orphaned_nodes
            /\ mgr'.secret_values = mgr.secret_values
            /\ twin' = twin
       /\ CleanupTimeout =>
            /\ \A s \in TaskIds : mgr'.tasks[s].st # "inflight"
            /\ mgr'.version = mgr.version]_vars

\* cleanup has cancelled the only write issued, that of a tree whose root was
\* created and then completed or given metadata or patched while the write
\* was outstanding
C28_Witness ==
    /\ cleaner.pc = "ready"
    /\ hist.lost
    /\ hist.ops = MaxOps
    /\ mgr.version = 1
    /\ wire.n = 1
    /\ hist.mut_inflight

(***************************************************************************)
(* Wrapped components: logical call chains (asyncio tasks) enter and leave *)
(* component_wrapper on one manager, that of the workflow.  Each chain     *)
(* runs in its own copy of the context, so it has its own value of the     *)
(* context variable _current_node_id.                                      *)
(***************************************************************************)
CompIds == 1 .. MaxCompIds

\* ComponentOpts(metadata=...), with the options the wrapper and the manager
\* read
OptsWithMetadata(metadata) ==
    Obj(TRUE, [secret_props |-> Lst(<<>>), secret_outputs |-> Bool(FALSE),
               metadata |-> metadata])

\* the wrapped components: Component("P"), and Component("Q") with metadata
Components ==
    {[component_name |-> <<"P">>, component_opts |-> OptsWithMetadata(EmptyMap)],
     [component_name |-> <<"Q">>,
      component_opts |-> OptsWithMetadata(Map([tag |-> META_1]))]}

\* an exception: the name of its class, whether the class derives from
\* Exception, and str(error)
Error(name, is_exception, message) ==
    [name |-> name, is_exception |-> is_exception, message |-> message]
\* ValueError("boom"), raised by the wrapped function
ValueError == Error(<<"V", "a", "l", "u", "e", "E", "r", "r", "o", "r">>, TRUE,
                    <<"b", "o", "o", "m">>)
\* asyncio.CancelledError(), thrown into the wrapped function where it awaits;
\* it derives from BaseException, not from Exception
CancelledError ==
    Error(<<"C", "a", "n", "c", "e", "l", "l", "e", "d", "E", "r", "r", "o", "r">>,
          FALSE, <<>>)
\* ComponentError(component_name, message, original_error)
ComponentError(component_name, message, original_error) ==
    [name |-> <<"C", "o", "m", "p", "o", "n", "e", "n", "t", "E", "r", "r", "o", "r">>,
     is_exception |-> TRUE,
     message |-> <<"C", "o", "m", "p", "o", "n", "e", "n", "t", " ", "'">>
                    \o component_name
                    \o <<"'", " ", "f", "a", "i", "l", "e", "d", ":", " ">> \o message,
     component_name |-> component_name,
     original_error |-> original_error]

\* traceback.format_exc(), a text
TRACEBACK == <<"T", "r", "a", "c", "e", "b", "a", "c", "k">>

\* serialize_error
serialize_error(error) ==
    Map([name |-> Str(error.name), message |-> Str(error.message),
         traceback |-> Str(TRACEBACK), type |-> Str(<<"e", "r", "r", "o", "r">>)])

\* a call chain as it starts: its copy of _current_node_id holds current; base
\* remembers that value; stack lists the spans of component_wrapper open on
\* the chain, innermost last; exc is the exception travelling to the caller
\* of the span that ended last
Chain(current) ==
    [current_node_id |-> current, base |-> current, stack |-> <<>>, exc |-> Null]

\* ExecutionContext.get_current_node_id in chain c
get_current_node_id(chs, c) == chs[c].current_node_id

\* mutant: the current node id kept in one variable that all chains share
current_node_id_set_shared(chs, c, value) ==
    [k \in DOMAIN chs |-> [chs[k] EXCEPT !.current_node_id = value]]

\* _current_node_id.set(value) and _current_node_id.reset(token) in chain c:
\* only the copy of c changes
current_node_id_set(chs, c, value) ==
    [chs EXCEPT ![c].current_node_id = value]

\* component_wrapper of comp called in chain c, up to the await of the wrapped
\* function: the node is created under the current node of the chain, the
\* metadata of the options added, the current node set; node_id is the uuid
\* add_node generates
component_enter(m, chs, c, comp, node_id) ==
    LET current_node_id == get_current_node_id(chs, c)
        props == Map([input |-> Str(SHORT)])
        m1 == add_node(m, node_id,
                       [props |-> props, component_opts |-> comp.component_opts],
                       current_node_id, <<>>)
        m2 == IF Truthy(comp.component_opts.attrs.metadata)
              THEN add_metadata(m1, node_id, comp.component_opts.attrs.metadata)
              ELSE m1
        token == chs[c].current_node_id
        frame == [node_id |-> node_id, token |-> token,
                  component_name |-> comp.component_name]
        chs1 == current_node_id_set(chs, c, node_id)
    IN [mgr |-> m2, chains |-> [chs1 EXCEPT ![c].stack = Append(@, frame)]]

\* the innermost span open on a chain
Top(ch) == ch.stack[Len(ch.stack)]
Pop(q) == SubSeq(q, 1, Len(q) - 1)

\* the wrapped function returns result: the current node is reset and the node
\* completed with the result
component_return(m, chs, c, result) ==
    LET frame == Top(chs[c])
        chs1 == current_node_id_set(chs, c, frame.token)
    IN [mgr |-> complete_node(m, frame.node_id, result),
        chains |-> [chs1 EXCEPT ![c].stack = Pop(@)]]

\* the wrapped function raises error: the current node is reset; "except
\* Exception" records an Exception on the node, completes the node with None
\* and raises ComponentError; any other exception passes through
component_except(m, chs, c, error) ==
    LET frame == Top(chs[c])
        chs1 == current_node_id_set(chs, c, frame.token)
        m1 == add_metadata(m, frame.node_id, Map([error |-> serialize_error(error)]))
    IN IF error.is_exception
       THEN [mgr |-> complete_node(m1, frame.node_id, Null),
             chains |-> [chs1 EXCEPT ![c].stack = Pop(@),
                                     ![c].exc = ComponentError(frame.component_name,
                                                               error.message, error)]]
       ELSE [mgr |-> m, chains |-> [chs1 EXCEPT ![c].stack = Pop(@), ![c].exc = error]]

CompInit ==
    /\ mgr = NewManager(TRUE)
    /\ twin = NewManager(FALSE)
    /\ HAS_AIOHTTP \in BOOLEAN
    /\ drain = [pc |-> "idle", task |-> None]
    /\ cleaner = [pc |-> "idle", task |-> None]
    /\ wire = [n |-> 0, payload |-> Null]
    /\ hist = [ops |-> 0, mut_inflight |-> FALSE, req_inflight |-> FALSE,
               add_since |-> FALSE, lost |-> FALSE]
    /\ call = NoCall
    /\ chains = <<Chain(None)>>

\* a step of a chain that calls the manager
CompCall(next) ==
    /\ hist.ops < MaxCompOps
    /\ \E s \in TaskIds : mgr.tasks[s].st = "free"
    /\ mgr' = next.mgr
    /\ chains' = next.chains
    /\ hist' = [hist EXCEPT !.ops = @ + 1]
    /\ UNCHANGED <<twin, HAS_AIOHTTP, call, drain, cleaner, wire>>

\* chain c calls a wrapped component
Enter(c) ==
    /\ chains[c].exc = Null
    /\ \E comp \in Components, node_id \in CompIds \ DOMAIN mgr.nodes :
        CompCall(component_enter(mgr, chains, c, comp, node_id))

\* the function of the innermost span of chain c returns
Return(c) ==
    /\ chains[c].exc = Null
    /\ chains[c].stack # <<>>
    /\ CompCall(component_return(mgr, chains, c, Str(SHORT)))

\* what the function of the innermost span of a chain can raise: the exception
\* that reached it from a component it called, or one of its own
Raisable(ch) == IF ch.exc # Null THEN {ch.exc} ELSE {ValueError, CancelledError}

\* the function of the innermost span of chain c raises error
FailWith(c, error) ==
    /\ chains[c].stack # <<>>
    /\ CompCall(component_except(mgr, chains, c, error))

Fail(c) == \E error \in Raisable(chains[c]) : FailWith(c, error)

\* the caller that an exception reached handles it
Catch(c) ==
    /\ chains[c].exc # Null
    /\ chains' = [chains EXCEPT ![c].exc = Null]
    /\ UNCHANGED <<mgr, twin, HAS_AIOHTTP, call, drain, cleaner, wire, hist>>

\* chain c starts a task (asyncio.create_task, asyncio.gather): the new chain
\* runs in a copy of the context of c
SpawnChain(c) ==
    /\ chains[c].exc = Null
    /\ Len(chains) < MaxChains
    /\ chains' = Append(chains, Chain(get_current_node_id(chains, c)))
    /\ UNCHANGED <<mgr, twin, HAS_AIOHTTP, call, drain, cleaner, wire, hist>>

CompNext ==
    \/ \E c \in DOMAIN chains : Enter(c)
    \/ \E c \in DOMAIN chains : Return(c)
    \/ \E c \in DOMAIN chains : Fail(c)
    \/ \E c \in DOMAIN chains : Catch(c)
    \/ \E c \in DOMAIN chains : SpawnChain(c)

CompSpec == CompInit /\ [][CompNext]_vars

\* one chain, and the flushes its calls lead to
FailNext ==
    \/ Enter(1)
    \/ Return(1)
    \/ Fail(1)
    \/ Catch(1)
    \/ TaskStart
    \/ TaskResponse

FailSpec == CompInit /\ [][FailNext]_vars

(***************************************************************************)
(* Properties of wrapped components.                                       *)
(***************************************************************************)
\* the node whose span is active in a chain: that of its innermost open span,
\* or the one it started under
ActiveNode(ch) == IF ch.stack = <<>> THEN ch.base ELSE Top(ch).node_id

\* C29: in every chain the current node id is the node of the innermost span
\* open on that chain (so it is back to the value before a span once the span
\* has ended), and the node of every open span has as parent id the node of
\* the span around it on its own chain, whatever other chains are doing.
C29_ParentIsOwnChainSpan ==
    \A c \in DOMAIN chains :
        /\ get_current_node_id(chains, c) = ActiveNode(chains[c])
        /\ \A i \in DOMAIN chains[c].stack :
            /\ chains[c].stack[i].token =
                  (IF i = 1 THEN chains[c].base ELSE chains[c].stack[i - 1].node_id)
            /\ mgr.nodes[chains[c].stack[i].node_id].parent_id = chains[c].stack[i].token

\* a chain has a span open on a node; meanwhile a second chain, started
\* outside every span, has created a node, which got no parent, and has left
\* its span again, which put its current node id back to none
C29_Witness ==
    /\ Len(chains) = 2
    /\ Len(chains[1].stack) = 1
    /\ chains[2].base = None
    /\ chains[2].stack = <<>>
    /\ get_current_node_id(chains, 2) = None
    /\ LET a == chains[1].stack[1].node_id
       IN \E b \in DOMAIN mgr.nodes :
            /\ mgr.nodes[b].parent_id = None
            /\ mgr.nodes[b].end_time
            /\ mgr.nodes[a].start_time < mgr.nodes[b].start_time

\* what the raise of error by the function of the innermost span of chain c
\* is to leave behind: the node completed without output, the error entry
\* merged into the metadata it had, a flush requested, the span closed, and a
\* ComponentError that names the component on its way to the caller
RaiseHandled(c, error) ==
    LET frame == Top(chains[c])
        node == mgr.nodes[frame.node_id]
    IN /\ mgr'.nodes[frame.node_id].end_time
       /\ mgr'.nodes[frame.node_id].output = Null
       /\ mgr'.nodes[frame.node_id].metadata =
             dict_update(node.metadata, Map([error |-> serialize_error(error)]))
       /\ ~Idle(mgr')
       /\ chains'[c].stack = Pop(chains[c].stack)
       /\ chains'[c].exc # Null
       /\ chains'[c].exc.name = ComponentError(frame.component_name, <<>>, Null).name
       /\ chains'[c].exc.component_name = frame.component_name

\* C30: whenever the function of a wrapped component raises, the node of the
\* component ends completed, with an end time, no output and an "error" entry
\* merged into its metadata, a flush is requested, and the caller receives a
\* ComponentError naming the component.
C30_RaiseCompletesNode ==
    [][\A c \in DOMAIN chains : \A error \in Raisable(chains[c]) :
          FailWith(c, error) => RaiseHandled(c, error)]_vars

(***************************************************************************)
(* Properties of the retry after a flush.                                  *)
(***************************************************************************)
\* a step in which a flush completes, with whatever outcome: _write_checkpoint
\* returns (after a response, a simulated write or an encoding error), which
\* is when it increments the version; a cancelled flush does not complete
FlushCompletes == mgr'.version = mgr.version + 1

\* C31: when a flush completes with pending_update set and the tree is
\* structurally valid, the same step clears the flag and creates the next
\* flush task, so no mutation comes in between; when a flush completes with
\* the flag not set, no flush is live and the flag is clear afterwards.
C31_RetryStartsAtOnce ==
    [][FlushCompletes =>
        IF mgr.pending_update
        THEN is_tree_valid(mgr) =>
                /\ ~mgr'.pending_update
                /\ \E s \in TaskIds :
                    /\ mgr'.tasks[s].st = "queued"
                    /\ mgr'.active_checkpoint = s
                    /\ LiveTasks(mgr') = {s}
        ELSE Idle(mgr')]_vars

\* a request came while the first flush was in flight; that flush has been
\* answered and the retry task exists, with the flag clear, and no call has
\* been made since
C31_Witness ==
    /\ hist.req_inflight
    /\ hist.ops = 2
    /\ mgr.version = 2
    /\ wire.n = 1
    /\ ~mgr.pending_update
    /\ \E s \in TaskIds : mgr.tasks[s].st = "queued" /\ mgr.active_checkpoint = s
    /\ is_tree_valid(mgr)

(***************************************************************************)
(* Properties of the validity check.                                       *)
(***************************************************************************)
\* the nodes reached from the nodes of S through children lists
RECURSIVE ReachedFrom(_, _)
ReachedFrom(m, S) ==
    LET T == S \cup UNION {Range(m.nodes[n].children) : n \in S}
    IN IF T = S THEN S ELSE ReachedFrom(m, T)

\* a root exists, no bucket of orphans exists, and every node in the children
\* list of a node reached from the root records that node as its parent
Connected(m) ==
    /\ m.root # None
    /\ DOMAIN m.orphaned_nodes = {}
    /\ \A n \in ReachedFrom(m, {m.root}) :
        \A child \in Range(m.nodes[n].children) : m.nodes[child].parent_id = n

\* C32: _is_tree_valid is true exactly when a root exists, no orphan bucket
\* exists and every node reached from the root through children lists records
\* as parent id the node whose children list holds it; it is false for the
\* empty store and true for a store that holds only a root.
C32_ValidIffConnected ==
    /\ is_tree_valid(mgr) <=> Connected(mgr)
    /\ DOMAIN mgr.nodes = {} => ~is_tree_valid(mgr)
    /\ (mgr.root # None /\ DOMAIN mgr.nodes = {mgr.root}) => is_tree_valid(mgr)

\* a root with a child in its children list and no bucket, reported not
\* valid because the child records another parent id
C32_Witness ==
    /\ mgr.root # None
    /\ DOMAIN mgr.orphaned_nodes = {}
    /\ mgr.nodes[mgr.root].children # <<>>
    /\ ~is_tree_valid(mgr)

(***************************************************************************)
(* The adoption of the root: nodes are created and recorded parent ids are *)
(* patched, which is the one way the root comes to record the id of a node *)
(* that does not exist yet.                                                *)
(***************************************************************************)
\* a synchronous call on the manager
AdoptCall(m) ==
    /\ hist.ops < MaxAdoptOps
    /\ mgr' = m
    /\ hist' = [hist EXCEPT !.ops = @ + 1]
    /\ UNCHANGED <<twin, HAS_AIOHTTP, call, chains, drain, cleaner, wire>>

AdoptAddNode ==
    \E node_id \in TreeIds \ DOMAIN mgr.nodes, parent_id \in TreeParentIds \cup {None},
       partial_node \in TreePartials :
        /\ parent_id # node_id
        /\ \E order \in Listings(IF node_id \in DOMAIN mgr.orphaned_nodes
                                 THEN mgr.orphaned_nodes[node_id] ELSE {}) :
            AdoptCall(add_node(mgr, node_id, partial_node, parent_id, order))

AdoptUpdateNode ==
    \E id \in TreeIds, updates \in TreeUpdates : AdoptCall(update_node(mgr, id, updates))

AdoptNext ==
    \/ AdoptAddNode
    \/ AdoptUpdateNode

AdoptSpec == TreeInit /\ [][AdoptNext]_vars

\* node n is created with no parent while the root records n as its parent id
Adopts(n) ==
    /\ n \notin DOMAIN mgr.nodes
    /\ n \in DOMAIN mgr'.nodes
    /\ mgr'.nodes[n].parent_id = None
    /\ mgr.root # None
    /\ mgr.nodes[mgr.root].parent_id = n

\* the new node is the root, the former root is in its children list exactly
\* once and records it as parent, and no bucket is keyed by the new id
Adopted(n) ==
    /\ mgr'.root = n
    /\ Cardinality({i \in DOMAIN mgr'.nodes[n].children :
                        mgr'.nodes[n].children[i] = mgr.root}) = 1
    /\ mgr'.nodes[mgr.root].parent_id = n
    /\ n \notin DOMAIN mgr'.orphaned_nodes

\* C33: when a parentless node is created while the root records its id as
\* parent id, the new node becomes the root, the former root is its child
\* exactly once, no bucket is keyed by the new id afterwards, and the tree is
\* structurally valid afterwards if no bucket of orphans remains.
C33_RootAdopted ==
    [][\A n \in TreeIds :
          Adopts(n) => /\ Adopted(n)
                       /\ DOMAIN mgr'.orphaned_nodes = {} => is_tree_valid(mgr')]_vars

(***************************************************************************)
(* Properties of the flush requests of the mutating calls.                 *)
(***************************************************************************)
\* what a call of _update_checkpoint leaves between the manager before a
\* mutation and the manager after it: a new flush task when none was live and
\* the tree is valid, the retry flag otherwise
Requested(before, after) ==
    IF LiveTasks(before) = {} /\ is_tree_valid(after)
    THEN \E s \in TaskIds : after.tasks[s].st = "queued" /\ after.active_checkpoint = s
    ELSE after.pending_update /\ after.tasks = before.tasks

\* no call of _update_checkpoint: tasks and retry flag are as they were
NotRequested(before, after) ==
    /\ after.tasks = before.tasks
    /\ after.active_checkpoint = before.active_checkpoint
    /\ after.pending_update = before.pending_update

\* C34: in every reachable state, add_node requests a flush exactly when the
\* node it creates has no parent and is the root afterwards (a child, an
\* orphan and a further parentless node request none), and complete_node,
\* add_metadata and update_node on a known node request one.
C34_RootAloneRequests ==
    /\ \A node_id \in Ids \ DOMAIN mgr.nodes, parent_id \in ParentIds \cup {None},
          partial_node \in Partials :
          parent_id # node_id =>
            \A order \in Listings(IF node_id \in DOMAIN mgr.orphaned_nodes
                                  THEN mgr.orphaned_nodes[node_id] ELSE {}) :
                LET m == add_node(mgr, node_id, partial_node, parent_id, order)
                IN IF parent_id = None /\ m.root = node_id
                   THEN Requested(mgr, m)
                   ELSE NotRequested(mgr, m)
    /\ \A id \in DOMAIN mgr.nodes :
        /\ \A output \in Outputs : Requested(mgr, complete_node(mgr, id, output))
        /\ \A metadata \in Metadatas : Requested(mgr, add_metadata(mgr, id, metadata))
        /\ \A updates \in Updates : Requested(mgr, update_node(mgr, id, updates))

\* the engine is idle after a flush, and a node that requested none (a child,
\* an orphan or a further parentless node) was created after that flush began
C34_Witness ==
    /\ Idle(mgr)
    /\ mgr.version > 1
    /\ hist.add_since
    /\ Cardinality(DOMAIN mgr.nodes) = 2

(***************************************************************************)
(* Properties of the payload.                                              *)
(***************************************************************************)
\* C35 (as amended): the steps field of every write is the number of nodes
\* reached from the root through children lists when the flush computes its
\* snapshot, which are the nodes the snapshot carries; it is the number of
\* nodes in the store exactly when every node of the store is among them.
C35_StepsCountSnapshot ==
    [][WriteIssued =>
        /\ wire'.payload.steps = Cardinality(ReachedFrom(mgr, {mgr.root}))
        /\ wire'.payload.steps <= Cardinality(DOMAIN mgr.nodes)
        /\ wire'.payload.steps = Cardinality(DOMAIN mgr.nodes)
            <=> ReachedFrom(mgr, {mgr.root}) = DOMAIN mgr.nodes]_vars

\* one write was issued, of a root without children, counted as one step,
\* while the store held a second parentless node created before the flush ran
C35_Witness ==
    /\ wire.n = 1
    /\ wire.payload.steps = 1
    /\ hist.ops = 2
    /\ ~hist.add_since
    /\ Cardinality(DOMAIN mgr.nodes) = 2
    /\ \A n \in DOMAIN mgr.nodes : mgr.nodes[n].parent_id = None

\* C35 (as stated): the steps field of every write is the number of nodes
\* held in the store when the flush computes its snapshot.
C35_StepsCountStore ==
    [][WriteIssued => wire'.payload.steps = Cardinality(DOMAIN mgr.nodes)]_vars

(***************************************************************************)
(* Properties of complete_node.                                            *)
(***************************************************************************)
\* the step changes end time or output of node n
Finishes(n) ==
    \/ mgr'.nodes[n].end_time # mgr.nodes[n].end_time
    \/ mgr'.nodes[n].output # mgr.nodes[n].output

\* C36: a call of complete_node on a known node leaves that node with an end
\* time and the clone of the output and with all its other fields as they
\* were, and every other node, the root and the orphan buckets as they were;
\* a node is created with no end time and no output, and only complete_node
\* and update_node change the end time or the output of a node.
C36_CompleteNodeFrame ==
    [][/\ \A id \in DOMAIN mgr.nodes, output \in Outputs :
            Call(complete_node(mgr, id, output), complete_node(twin, id, output),
                 TRUE, TRUE)
            => /\ mgr'.nodes = [mgr.nodes EXCEPT ![id].end_time = TRUE,
                                                 ![id].output = clone_value(output)]
               /\ mgr'.root = mgr.root
               /\ mgr'.orphaned_nodes = mgr.orphaned_nodes
       /\ \A n \in DOMAIN mgr'.nodes :
            IF n \notin DOMAIN mgr.nodes
            THEN ~mgr'.nodes[n].end_time /\ mgr'.nodes[n].output = Null
            ELSE Finishes(n) => (CompleteNode \/ UpdateNode)]_vars

\* the root has its end time and its output by complete_node, and its child,
\* still in its children list, has neither
C36_Witness ==
    /\ mgr.root # None
    /\ mgr.nodes[mgr.root].end_time
    /\ mgr.nodes[mgr.root].output \in Outputs
    /\ \E c \in DOMAIN mgr.nodes :
        /\ mgr.nodes[mgr.root].children = <<c>>
        /\ mgr.nodes[c].parent_id = mgr.root
        /\ ~mgr.nodes[c].end_time
        /\ mgr.nodes[c].output = Null

(***************************************************************************)
(* The store as add_node, complete_node and add_metadata alone build it:   *)
(* no recorded parent id is overwritten.                                   *)
(***************************************************************************)
LinkNext ==
    \/ TreeAddNode
    \/ TreeCompleteNode
    \/ TreeAddMetadata

LinkSpec == TreeInit /\ [][LinkNext]_vars

\* the nodes of S and the nodes found by following recorded parent ids
RECURSIVE UpFrom(_, _)
UpFrom(m, S) ==
    LET T == S \cup ({m.nodes[n].parent_id : n \in S} \cap DOMAIN m.nodes)
    IN IF T = S THEN S ELSE UpFrom(m, T)

\* C37 (as amended): whenever the tree is reported structurally valid, a node
\* of the store is reached from the root through children lists, and so is in
\* the snapshot, exactly when following recorded parent ids from it leads to
\* the root; the other nodes of the store are outside the snapshot.
C37_ReachedIffUnderRoot ==
    is_tree_valid(mgr) =>
        \A n \in DOMAIN mgr.nodes :
            n \in ReachedFrom(mgr, {mgr.root}) <=> mgr.root \in UpFrom(mgr, {n})

\* a valid tree beside which the store holds a further parentless node and a
\* child of that node, neither reached from the root
C37_Witness ==
    /\ is_tree_valid(mgr)
    /\ \E d, c \in DOMAIN mgr.nodes \ {mgr.root} :
        /\ mgr.nodes[d].parent_id = None
        /\ mgr.nodes[d].children = <<c>>
        /\ mgr.nodes[c].parent_id = d
        /\ ReachedFrom(mgr, {mgr.root}) = {mgr.root}

\* C37 (as stated): whenever the tree is reported structurally valid, every
\* node of the store is reached from the root through children lists.
C37_ValidCoversStore ==
    is_tree_valid(mgr) => ReachedFrom(mgr, {mgr.root}) = DOMAIN mgr.nodes

\* a step that is a call on the manager, the drain or cleanup
CallStep == hist'.ops = hist.ops + 1

\* a call creates a flush task
RequestStarts == CallStep /\ LiveTasks(mgr) = {} /\ LiveTasks(mgr') # {}

\* a step of a task, or its cancellation, leaves a newly created flush task
RetryStarts ==
    /\ hist'.ops = hist.ops
    /\ mgr' # mgr
    /\ \E s \in TaskIds : mgr'.tasks[s].st = "queued"

RECURSIVE OnlySecretsChanged(_, _, _)
OnlySecretsChanged(value, scrubbed, secrets) ==
    CASE value.t = "null" -> scrubbed = value
      [] value.t = "bool" -> scrubbed = value
      [] value.t = "str" ->
            /\ scrubbed.t = "str"
            /\ (\A s \in secrets : ~Occurs(value.v, s)) => scrubbed = value
      [] value.t = "list" ->
            /\ scrubbed.t = "list"
            /\ DOMAIN scrubbed.v = DOMAIN value.v
            /\ \A i \in DOMAIN value.v : OnlySecretsChanged(value.v[i], scrubbed.v[i], secrets)
      [] value.t = "dict" ->
            /\ scrubbed.t = "dict"
            /\ DOMAIN scrubbed.v = DOMAIN value.v
            /\ \A k \in DOMAIN value.v : OnlySecretsChanged(value.v[k], scrubbed.v[k], secrets)
      [] OTHER -> TRUE

\* C39: scrubbing changes only secret occurrences: None and booleans are
\* returned unchanged, every dict keeps its keys and every list its length,
\* and a string in which no effective secret occurs is returned unchanged.
C39_ScrubChangesSecretsOnly ==
    Len(call.result) >= 1 =>
        OnlySecretsChanged(call.args.data, call.result[1],
                           {s \in ScrubEffective(mgr) : Len(s) >= MIN_SECRET_LENGTH})

(***************************************************************************)
(* Shutdown: cleanup called while components still request flushes.        *)
(***************************************************************************)
\* a synchronous call on the manager
ShutCall(m) ==
    /\ hist.ops < MaxShutOps
    /\ \E s \in TaskIds : mgr.tasks[s].st = "free"
    /\ mgr' = m
    /\ hist' = [hist EXCEPT !.ops = @ + 1]
    /\ UNCHANGED <<twin, HAS_AIOHTTP, call, chains, drain, cleaner, wire>>

\* add_node of a node without a parent
ShutAddNode ==
    \E node_id \in Ids \ DOMAIN mgr.nodes, partial_node \in Partials :
        ShutCall(add_node(mgr, node_id, partial_node, None, <<>>))

\* complete_node of a known node: a call that requests a flush
ShutCompleteNode ==
    \E id \in DOMAIN mgr.nodes, output \in Outputs :
        ShutCall(complete_node(mgr, id, output))

\* a call of cleanup
ShutCleanupCall ==
    /\ cleaner.pc \notin {"wait", "ready"}
    /\ hist.ops < MaxShutOps
    /\ cleaner' = cleanup(mgr)
    /\ hist' = [hist EXCEPT !.ops = @ + 1]
    /\ UNCHANGED <<mgr, twin, HAS_AIOHTTP, call, chains, drain, wire>>

ShutNext ==
    \/ ShutAddNode
    \/ ShutCompleteNode
    \/ TaskStart
    \/ TaskResponse
    \/ ShutCleanupCall
    \/ CleanupTimeout
    \/ CleanupResume

ShutSpec == Init /\ [][ShutNext]_vars

\* a step in which cleanup returns to its caller
CleanupReturns == cleaner.pc # "returned" /\ cleaner'.pc = "returned"

\* C40: when cleanup returns, no flush is in flight, also when pending_update
\* was set as the flush it waited for ended or was cancelled; a flush starts
\* afterwards only in a call that requests one.
C40_CleanupLeavesNoFlush ==
    [][/\ CleanupReturns => LiveTasks(mgr') = {}
       /\ (cleaner.pc = "returned" /\ RetryStarts) => LiveTasks(mgr) # {}]_vars
====
